---- MODULE Spec2Model ----
(***************************************************************************)
(* Model of the bridge CNI plugin of cni-ng: the kernel network state the  *)
(* plugin manipulates (links, addresses, sysctl keys, the NAT table), the  *)
(* operations of src/bridge/src/main.rs and src/ip/src/link.rs as          *)
(* operators over that state, and the ADD flow (cmd_add) as a sequence of  *)
(* steps.                                                                  *)
(*                                                                         *)
(* Every kernel call the code makes through netlink_ng / utils / iptables  *)
(* can fail.  An operation takes a `fault` argument naming the call of    *)
(* its body that fails during this invocation ("none": no call fails).     *)
(***************************************************************************)
EXTENDS Integers, Sequences, FiniteSets, TLC

VARIABLES
    pc,         \* the statement of main / plugin_main / cmd_add to run next
    local,      \* the local variables of cmd_add
    trace,      \* the steps cmd_add has run in this invocation, each with
                \* whether it succeeded
    stdout,     \* what the process has written to its standard output
    exit,       \* the exit code of the process, -1 while it runs
    kernel,     \* the state of the OS: links, addresses, routes, sysctl keys,
                \* the namespace the plugin's thread is in (ns) and the kernel
                \* calls that changed something during the current invocation
                \* (log)
    call        \* the last operation applied by a unit harness, with its
                \* arguments, the kernel state before it and its result

(***************************************************************************)
(* Bounds of the model.                                                    *)
(***************************************************************************)
\* width of an IP address in bits (32 / 128 in the program)
AddrBits == 2
\* the largest IP address the harnesses and the delegate hand out
MaxIp == 2
\* number of ensure_addr calls in one behaviour of SpecAddr
MaxCalls == 3

(***************************************************************************)
(* Values.                                                                 *)
(***************************************************************************)
HostNs == "host"

\* the network namespace of the container (CNI_NETNS)
ContNs == "cont"

FAMILY_V4 == "v4"

FAMILY_V6 == "v6"

Families == {FAMILY_V4, FAMILY_V6}

Min(a, b) == IF a < b THEN a ELSE b

Ips == 0 .. Min(MaxIp, 2 ^ AddrBits - 1)

\* IpNetwork: an address of a family with a prefix length
IpNetworks == [fam : Families, ip : Ips, prefix : 0 .. AddrBits]

\* the prefix lengths the harnesses use: host, half and quarter of the
\* narrowest subnets
PrefixLens == (AddrBits - 2) .. AddrBits

NoLink ==
    [index |-> 0, name |-> "", kind |-> "none", ns |-> "", mtu |-> 0,
     vlan_filtering |-> FALSE, up |-> FALSE, promisc |-> FALSE, master |-> 0,
     peer |-> 0]

procvars == <<pc, local, trace, stdout, exit>>

vars == <<kernel, call, pc, local, trace, stdout, exit>>

NoCall == [op |-> "none", n |-> 0]

NoConf ==
    [name |-> "", br_name |-> "", is_gw |-> FALSE, is_default_gw |-> FALSE,
     force_address |-> FALSE, ip_masq |-> FALSE, promisc_mode |-> FALSE, mtu |-> 0,
     vlan_filtering |-> FALSE]

\* Option<T>: None is the empty sequence, Some(x) the sequence of x
None == << >>

Some(x) == <<x>>

\* the locals of cmd_add before it has run
NoLocal ==
    [cmd |-> "", stdin_data |-> NoConf, net_conf |-> NoConf, br_link |-> NoLink,
     br_interface |-> [name |-> "", mac |-> << >>, sandbox |-> << >>],
     bridge_result |-> [cni_version |-> None, interfaces |-> None, ips |-> None,
                        routes |-> None, dns |-> None],
     gateway_infos |-> << >>, child |-> << >>, i |-> 0, res |-> "", err |-> ""]

\* the harnesses do not run the plugin's main
ProcOff ==
    /\ pc = "off"
    /\ local = NoLocal
    /\ trace = << >>
    /\ stdout = << >>
    /\ exit = -1

Ok(k) == [ok |-> TRUE, err |-> "", k |-> k]

\* let x = v; F(x): v is evaluated once, before F
Let(v, F(_)) == CHOOSE out \in {F(x) : x \in {v}} : TRUE

Err(k, e) == [ok |-> FALSE, err |-> e, k |-> k]

(***************************************************************************)
(* Kernel primitives (netlink_ng, netns_ng, utils::sysctl_set), as the     *)
(* code uses them.  k.ns is the namespace the calling thread is in; `fail` *)
(* makes the call fail for a reason of the environment.                    *)
(***************************************************************************)
LinksIn(k, ns) == {l \in k.links : l.ns = ns}

Logged(k, op, index) == [k EXCEPT !.log = Append(@, [op |-> op, link |-> index])]

\* netlink_ng::link_by_name in the current namespace: Ok(None) is NoLink
link_by_name(k, name, fail) ==
    IF fail THEN Err(k, "EIO") @@ [link |-> NoLink]
    ELSE IF \E l \in LinksIn(k, k.ns) : l.name = name
         THEN Ok(k) @@ [link |-> CHOOSE l \in LinksIn(k, k.ns) : l.name = name]
         ELSE Ok(k) @@ [link |-> NoLink]

\* netlink_ng::link_add of a bridge: a device name is unique in a namespace
link_add(k, link, fail) ==
    IF fail THEN Err(k, "EPERM")
    ELSE IF \E l \in LinksIn(k, k.ns) : l.name = link.name
         THEN Err(k, "AlreadyExists")
         ELSE Ok(Logged([k EXCEPT !.links = @ \cup {[link EXCEPT !.index = k.nextIndex,
                                                                 !.ns = k.ns]},
                                  !.nextIndex = @ + 1],
                        "link_add", k.nextIndex))

\* netlink_ng::link_add of a veth pair: one end in the current namespace, the
\* peer in peer_ns
link_add_veth(k, name, peer_name, peer_ns, fail) ==
    IF fail THEN Err(k, "EPERM")
    ELSE IF \/ \E l \in LinksIn(k, k.ns) : l.name = name
            \/ \E l \in LinksIn(k, peer_ns) : l.name = peer_name
         THEN Err(k, "AlreadyExists")
         ELSE LET a == [NoLink EXCEPT !.index = k.nextIndex, !.name = name,
                                      !.kind = "veth", !.ns = k.ns,
                                      !.peer = k.nextIndex + 1]
                  b == [NoLink EXCEPT !.index = k.nextIndex + 1, !.name = peer_name,
                                      !.kind = "veth", !.ns = peer_ns,
                                      !.peer = k.nextIndex]
              IN  Ok(Logged([k EXCEPT !.links = @ \cup {a, b},
                                      !.nextIndex = @ + 2],
                            "link_add", k.nextIndex))

\* netlink_ng::link_del by name: a veth goes with its peer
link_del(k, name, fail) ==
    IF fail THEN Err(k, "EPERM")
    ELSE IF ~\E l \in LinksIn(k, k.ns) : l.name = name THEN Err(k, "ENODEV")
    ELSE LET l == CHOOSE x \in LinksIn(k, k.ns) : x.name = name
         IN  Ok(Logged([k EXCEPT !.links = {x \in @ : x.index \notin {l.index, l.peer}},
                                 !.addrs = SelectSeq(@,
                                     LAMBDA a : a.link \notin {l.index, l.peer})],
                       "link_del", l.index))

SetLink(k, index, field, value) ==
    [k EXCEPT !.links = {IF l.index = index THEN [l EXCEPT ![field] = value] ELSE l
                         : l \in @}]

\* netlink_ng::set_promisc_on
set_promisc_on(k, index, fail) ==
    IF fail THEN Err(k, "EPERM")
    ELSE Ok(Logged(SetLink(k, index, "promisc", TRUE), "set_promisc_on", index))

\* netlink_ng::link_set_up
link_set_up(k, index, fail) ==
    IF fail THEN Err(k, "EPERM")
    ELSE Ok(Logged(SetLink(k, index, "up", TRUE), "link_set_up", index))

\* netlink_ng::link_set_master
link_set_master(k, index, master, fail) ==
    IF fail THEN Err(k, "EPERM")
    ELSE Ok(Logged(SetLink(k, index, "master", master), "link_set_master", index))

\* utils::sysctl_set(key, "1")
sysctl_set(k, key, fail) ==
    IF fail THEN Err(k, "EACCES")
    ELSE Ok(Logged([k EXCEPT !.sysctl = @ \cup {key}], "sysctl_set", 0))

\* ipnetwork: IpNetwork::contains(ip), false across families
contains(net, fam, ip) ==
    /\ net.fam = fam
    /\ ip \div (2 ^ (AddrBits - net.prefix)) = net.ip \div (2 ^ (AddrBits - net.prefix))

\* netlink_ng::addr_list(link, family): the link's addresses of the family, in
\* the kernel's order
addr_list(k, index, family, fail) ==
    IF fail THEN Err(k, "EIO") @@ [addrs |-> << >>]
    ELSE Ok(k) @@ [addrs |-> SelectSeq(k.addrs,
                                 LAMBDA a : a.link = index /\ a.net.fam = family)]

\* the kernel identifies an IPv4 address of a link by IP and prefix length, an
\* IPv6 address by its IP
SameAddr(a, b) ==
    /\ a.fam = b.fam
    /\ a.ip = b.ip
    /\ (a.fam = FAMILY_V4 => a.prefix = b.prefix)

\* netlink_ng::addr_add
addr_add(k, index, net, fail) ==
    IF fail THEN Err(k, "EPERM")
    ELSE IF \E i \in 1 .. Len(k.addrs) :
                k.addrs[i].link = index /\ SameAddr(k.addrs[i].net, net)
         THEN Err(k, "AlreadyExists")
         ELSE Ok(Logged([k EXCEPT !.addrs = Append(@, [link |-> index, net |-> net])],
                        "addr_add", index))

\* netlink_ng::addr_del
addr_del(k, index, net, fail) ==
    IF fail THEN Err(k, "EPERM")
    ELSE IF ~\E i \in 1 .. Len(k.addrs) :
                k.addrs[i].link = index /\ k.addrs[i].net = net
         THEN Err(k, "EADDRNOTAVAIL")
         ELSE Ok(Logged([k EXCEPT !.addrs = SelectSeq(@,
                                     LAMBDA a : ~(a.link = index /\ a.net = net))],
                        "addr_del", index))

(***************************************************************************)
(* cni_core::error                                                         *)
(***************************************************************************)
is_already_exists_error_NeverMatches(e) == FALSE

is_already_exists_error_AlwaysMatches(e) == TRUE

is_already_exists_error(e) == e = "AlreadyExists"

(***************************************************************************)
(* Bridge manager (src/bridge/src/main.rs)                                 *)
(***************************************************************************)
\* a bridge_by_name that returns the device whatever its kind
bridge_by_name_AnyKind(k, br_name, fault) ==
    link_by_name(k, br_name, fault = "link_by_name")

\* bridge_by_name: Ok(None) is NoLink
bridge_by_name(k, br_name, fault) ==
    LET r == link_by_name(k, br_name, fault = "link_by_name")
    IN  IF ~r.ok THEN r
        ELSE IF r.link = NoLink THEN r
        ELSE IF r.link.kind # "bridge"
             THEN Err(k, "link is not a bridge") @@ [link |-> NoLink]
             ELSE r

\* the promiscuous-mode block of ensure_bridge
ensure_bridge_promisc(k, br_name, promisc_mode, fault) ==
    IF ~promisc_mode THEN Ok(k)
    ELSE LET r == link_by_name(k, br_name, fault = "try_as_index")
         IN  IF ~r.ok THEN Err(k, r.err)
             ELSE IF r.link = NoLink THEN Err(k, "bridge not found")
             ELSE set_promisc_on(k, r.link.index, fault = "set_promisc_on")

\* the steps of ensure_bridge after link_add and the promiscuous-mode block
ensure_bridge_resolve(k, br_name, fault) ==
    LET br == bridge_by_name(k, br_name, fault)
    IN  IF ~br.ok THEN br
        ELSE IF br.link = NoLink THEN Err(k, "bridge not found") @@ [link |-> NoLink]
        ELSE LET s == sysctl_set(k, "net/ipv6/conf/" \o br_name \o "/accept_ra",
                                    fault = "sysctl_set")
             IN  IF ~s.ok THEN s @@ [link |-> NoLink]
                 ELSE LET u == link_set_up(s.k, br.link.index, fault = "link_set_up")
                      IN  IF ~u.ok THEN u @@ [link |-> NoLink]
                          ELSE u @@ [link |-> br.link]

ensure_bridge(k, br_name, mtu, promisc_mode, vlan_filtering, fault) ==
    LET br == [NoLink EXCEPT !.name = br_name, !.kind = "bridge", !.mtu = mtu,
                             !.vlan_filtering = vlan_filtering]
        a  == link_add(k, br, fault = "link_add")
    IN  IF ~a.ok /\ ~is_already_exists_error(a.err)
        THEN Err(k, "link add failed") @@ [link |-> NoLink]
        ELSE LET p == ensure_bridge_promisc(a.k, br_name, promisc_mode, fault)
             IN  IF ~p.ok THEN p @@ [link |-> NoLink]
                 ELSE ensure_bridge_resolve(p.k, br_name, fault)

(***************************************************************************)
(* Harness for ensure_bridge: repeated calls on one host.                  *)
(***************************************************************************)
BrNames == {"cni0", "br1"}

Mtus == {1500}

VlanModes == {FALSE}

BridgeFaults ==
    {"none", "link_add", "try_as_index", "set_promisc_on", "link_by_name",
     "sysctl_set", "link_set_up"}

EmptyKernel ==
    [links |-> {}, addrs |-> << >>, routes |-> << >>, sysctl |-> {},
     nat |-> [chains |-> {}, rules |-> << >>],
     nextIndex |-> 1, ns |-> HostNs, log |-> << >>]

\* a host on which the name cni0 is already taken by a device that is no bridge
DummyKernel ==
    [EmptyKernel EXCEPT
        !.links = {[NoLink EXCEPT !.index = 1, !.name = "cni0", !.kind = "dummy",
                                  !.ns = HostNs]},
        !.nextIndex = 2]

\* the OS state between invocations: the log of kernel calls starts empty
Fresh(k) == [k EXCEPT !.log = << >>]

InitBridge ==
    /\ ProcOff
    /\ kernel \in {EmptyKernel, DummyKernel}
    /\ call = NoCall

CallEnsureBridge ==
    \E name \in BrNames, mtu \in Mtus, promisc \in BOOLEAN, vlan \in VlanModes,
       fault \in BridgeFaults :
        LET r == ensure_bridge(kernel, name, mtu, promisc, vlan, fault)
        IN  /\ kernel' = Fresh(r.k)
            /\ call' = [op |-> "ensure_bridge", n |-> 0, name |-> name, mtu |-> mtu,
                        promisc |-> promisc, vlan |-> vlan, fault |-> fault,
                        pre |-> kernel, ok |-> r.ok, err |-> r.err, link |-> r.link,
                        log |-> r.k.log]
            /\ UNCHANGED procvars

NextBridge == CallEnsureBridge

SpecBridge == InitBridge /\ [][NextBridge]_vars

NamedLinks(k, name) == {l \in LinksIn(k, HostNs) : l.name = name}

\* C1: every ensure_bridge call for a name that is free or held by a bridge,
\* during which no kernel call fails, succeeds, leaves exactly one device of
\* that name, and when the bridge existed before the call it creates no device
\* and returns that same device.
C1_EnsureBridgeIdempotent ==
    (/\ call.op = "ensure_bridge"
     /\ call.fault = "none"
     /\ \A l \in NamedLinks(call.pre, call.name) : l.kind = "bridge")
    => /\ call.ok
       /\ Cardinality(NamedLinks(kernel, call.name)) = 1
       /\ call.link.name = call.name
       /\ \A l \in NamedLinks(call.pre, call.name) :
            /\ call.link.index = l.index
            /\ {x.index : x \in kernel.links} = {x.index : x \in call.pre.links}

\* a second or later ensure_bridge call on an existing bridge has returned
C1_Witness ==
    /\ call.op = "ensure_bridge"
    /\ call.fault = "none"
    /\ \E l \in NamedLinks(call.pre, call.name) : l.kind = "bridge" /\ l.up
    /\ call.ok

\* C23: when creating the bridge device fails for a reason other than
\* "already exists", ensure_bridge returns an error and performs none of its
\* later steps: no promiscuous mode, no accept_ra sysctl, no device brought
\* up; the host is as it was.
C23_CreateFailureIsFatal ==
    call.op = "ensure_bridge" /\ call.fault = "link_add" =>
        /\ ~call.ok
        /\ call.err = "link add failed"
        /\ call.log = << >>
        /\ kernel = call.pre

\* the creation has failed for a call with promisc_mode on a host where the
\* bridge exists, so that each later step had a device to act on
C23_Witness ==
    /\ call.op = "ensure_bridge" /\ call.fault = "link_add" /\ ~call.ok
    /\ call.promisc
    /\ \E l \in NamedLinks(call.pre, call.name) : l.kind = "bridge" /\ ~l.promisc

\* C34: an ensure_bridge call that fails because the device of the requested
\* name is no bridge leaves that device exactly as it was, its promiscuous
\* flag included, also when promisc_mode was requested.
C34_ForeignDeviceUntouched ==
    call.op = "ensure_bridge" /\ ~call.ok /\ call.err = "link is not a bridge" =>
        /\ NamedLinks(kernel, call.name) = NamedLinks(call.pre, call.name)
        /\ call.log = << >>

(***************************************************************************)
(* Concurrent invocations of ensure_bridge for one bridge name: every      *)
(* kernel call of ensure_bridge is one step, and the steps of the          *)
(* invocations interleave in any order.  call.proc[p] holds the position   *)
(* and the locals of invocation p; `fail` makes the kernel call of a step  *)
(* fail for a reason of the environment.                                   *)
(***************************************************************************)
\* number of invocations that run ensure_bridge at the same time
NumInvocations == 2

Invocations == 1 .. NumInvocations

InitConc ==
    /\ ProcOff
    /\ kernel \in {EmptyKernel, DummyKernel}
    /\ \E name \in BrNames, mtu \in Mtus, vlan \in VlanModes,
          promisc \in [Invocations -> BOOLEAN] :
        call = [op |-> "concurrent", n |-> 0, name |-> name, mtu |-> mtu,
                vlan |-> vlan, pre |-> kernel, overlapped |-> FALSE,
                proc |-> [p \in Invocations |->
                            [pc |-> "link_add", promisc |-> promisc[p],
                             faulted |-> FALSE, err |-> "", link_index |-> 0,
                             br |-> NoLink]]]

\* invocation p makes a kernel call while another invocation is between its
\* first kernel call and its return
Overlap(p) ==
    \E q \in Invocations \ {p} :
        call.proc[q].pc \notin {"link_add", "addr_list", "done", "failed"}

\* invocation p moves on to the kernel call at `to`
Goto(p, to) ==
    call' = [call EXCEPT !.proc[p].pc = to, !.overlapped = @ \/ Overlap(p)]

\* invocation p returns the error; faulted when the environment caused it
Bail(p, err, faulted) ==
    call' = [call EXCEPT !.proc[p].pc = "failed", !.proc[p].err = err,
                         !.proc[p].faulted = faulted,
                         !.overlapped = @ \/ Overlap(p)]

\* netlink_ng::link_add(&br), any error a failure of the invocation
ConcLinkAdd_NoSwallow(p) ==
    /\ call.op = "concurrent" /\ call.proc[p].pc = "link_add"
    /\ \E fail \in BOOLEAN :
        \E r \in {link_add(kernel, [NoLink EXCEPT !.name = call.name,
                                                  !.kind = "bridge",
                                                  !.mtu = call.mtu,
                                                  !.vlan_filtering = call.vlan],
                           fail)} :
            /\ kernel' = Fresh(r.k)
            /\ IF ~r.ok
               THEN Bail(p, "link add failed", fail)
               ELSE Goto(p, IF call.proc[p].promisc THEN "try_as_index"
                            ELSE "bridge_by_name")
    /\ UNCHANGED procvars

\* netlink_ng::link_add(&br), an AlreadyExists error swallowed
ConcLinkAdd(p) ==
    /\ call.op = "concurrent" /\ call.proc[p].pc = "link_add"
    /\ \E fail \in BOOLEAN :
        \E r \in {link_add(kernel, [NoLink EXCEPT !.name = call.name,
                                                  !.kind = "bridge",
                                                  !.mtu = call.mtu,
                                                  !.vlan_filtering = call.vlan],
                           fail)} :
            /\ kernel' = Fresh(r.k)
            /\ IF ~r.ok /\ ~is_already_exists_error(r.err)
               THEN Bail(p, "link add failed", fail)
               ELSE Goto(p, IF call.proc[p].promisc THEN "try_as_index"
                            ELSE "bridge_by_name")
    /\ UNCHANGED procvars

\* br_name.try_as_index()?.ok_or("bridge not found")?
ConcTryAsIndex(p) ==
    /\ call.op = "concurrent" /\ call.proc[p].pc = "try_as_index"
    /\ \E fail \in BOOLEAN :
        \E r \in {link_by_name(kernel, call.name, fail)} :
            /\ kernel' = Fresh(r.k)
            /\ IF ~r.ok THEN Bail(p, r.err, fail)
               ELSE IF r.link = NoLink THEN Bail(p, "bridge not found", FALSE)
               ELSE call' = [call EXCEPT !.proc[p].pc = "set_promisc_on",
                                         !.proc[p].link_index = r.link.index,
                                         !.overlapped = @ \/ Overlap(p)]
    /\ UNCHANGED procvars

\* netlink_ng::set_promisc_on(link_index)?
ConcSetPromiscOn(p) ==
    /\ call.op = "concurrent" /\ call.proc[p].pc = "set_promisc_on"
    /\ \E fail \in BOOLEAN :
        \E r \in {set_promisc_on(kernel, call.proc[p].link_index, fail)} :
            /\ kernel' = Fresh(r.k)
            /\ IF ~r.ok THEN Bail(p, r.err, fail) ELSE Goto(p, "bridge_by_name")
    /\ UNCHANGED procvars

\* bridge_by_name(br_name)?.ok_or("bridge not found")?
ConcBridgeByName(p) ==
    /\ call.op = "concurrent" /\ call.proc[p].pc = "bridge_by_name"
    /\ \E fail \in BOOLEAN :
        \E r \in {bridge_by_name(kernel, call.name,
                                 IF fail THEN "link_by_name" ELSE "none")} :
            /\ kernel' = Fresh(r.k)
            /\ IF ~r.ok THEN Bail(p, r.err, fail)
               ELSE IF r.link = NoLink THEN Bail(p, "bridge not found", FALSE)
               ELSE call' = [call EXCEPT !.proc[p].pc = "sysctl_set",
                                         !.proc[p].br = r.link,
                                         !.overlapped = @ \/ Overlap(p)]
    /\ UNCHANGED procvars

\* utils::sysctl_set("net/ipv6/conf/{br_name}/accept_ra", "1")?
ConcSysctlSet(p) ==
    /\ call.op = "concurrent" /\ call.proc[p].pc = "sysctl_set"
    /\ \E fail \in BOOLEAN :
        \E r \in {sysctl_set(kernel, "net/ipv6/conf/" \o call.name \o "/accept_ra",
                             fail)} :
            /\ kernel' = Fresh(r.k)
            /\ IF ~r.ok THEN Bail(p, r.err, fail) ELSE Goto(p, "link_set_up")
    /\ UNCHANGED procvars

\* netlink_ng::link_set_up(br.as_index())?; Ok(br)
ConcLinkSetUp(p) ==
    /\ call.op = "concurrent" /\ call.proc[p].pc = "link_set_up"
    /\ \E fail \in BOOLEAN :
        \E r \in {link_set_up(kernel, call.proc[p].br.index, fail)} :
            /\ kernel' = Fresh(r.k)
            /\ IF ~r.ok THEN Bail(p, r.err, fail) ELSE Goto(p, "done")
    /\ UNCHANGED procvars

NextConc ==
    \/ \E p \in Invocations : ConcLinkAdd(p)
    \/ \E p \in Invocations : ConcTryAsIndex(p)
    \/ \E p \in Invocations : ConcSetPromiscOn(p)
    \/ \E p \in Invocations : ConcBridgeByName(p)
    \/ \E p \in Invocations : ConcSysctlSet(p)
    \/ \E p \in Invocations : ConcLinkSetUp(p)

SpecConc == InitConc /\ [][NextConc]_vars

\* the invocations run for a name that was free or held by a bridge
ConcRun ==
    /\ call.op = "concurrent"
    /\ \A l \in NamedLinks(call.pre, call.name) : l.kind = "bridge"

\* C20: when invocations run ensure_bridge concurrently for one bridge name,
\* then under every interleaving of their kernel calls an invocation none of
\* whose kernel calls fails does not fail, there is never more than one device
\* of that name, and once the invocations have returned exactly one bridge of
\* that name exists, which every successful invocation returns.
C20_ConcurrentEnsureBridge ==
    ConcRun =>
        /\ \A p \in Invocations :
            call.proc[p].pc = "failed" => call.proc[p].faulted
        /\ Cardinality(NamedLinks(kernel, call.name)) <= 1
        /\ (\A p \in Invocations : call.proc[p].pc = "done") =>
            /\ Cardinality(NamedLinks(kernel, call.name)) = 1
            /\ \A p \in Invocations, l \in NamedLinks(kernel, call.name) :
                /\ l.kind = "bridge" /\ l.up
                /\ call.proc[p].br.index = l.index

\* the invocations have returned Ok for a name that was free, after kernel
\* calls of one were made between the kernel calls of another
C20_Witness ==
    /\ ConcRun
    /\ call.overlapped
    /\ NamedLinks(call.pre, call.name) = {}
    /\ \A p \in Invocations : call.proc[p].pc = "done"
    /\ \E p, q \in Invocations : p # q /\ call.proc[p].promisc /\ ~call.proc[q].promisc

(***************************************************************************)
(* Address reconciler (src/bridge/src/main.rs)                             *)
(***************************************************************************)
\* a conflict rule that lets IPv4 addresses coexist like IPv6 ones
addr_conflicts_NoV4Rule(family, addr_item, ip) ==
    \/ contains(addr_item, ip.fam, ip.ip)
    \/ contains(ip, addr_item.fam, addr_item.ip)

\* a conflict rule that tests the overlap in one direction only
addr_conflicts_OneWay(family, addr_item, ip) ==
    \/ family = FAMILY_V4
    \/ contains(addr_item, ip.fam, ip.ip)

\* the conflict rule of ensure_addr for one existing address
addr_conflicts(family, addr_item, ip) ==
    \/ family = FAMILY_V4
    \/ contains(addr_item, ip.fam, ip.ip)
    \/ contains(ip, addr_item.fam, addr_item.ip)

RECURSIVE ensure_addr_loop_DeleteFirst(_, _, _, _, _, _, _)
\* a loop that deletes a conflicting address before it looks at force_address
ensure_addr_loop_DeleteFirst(k, br, addrs, i, ip, force_address, fault) ==
    IF i > Len(addrs) THEN Ok(k) @@ [return |-> FALSE]
    ELSE IF addrs[i].net.ip = ip.ip THEN Ok(k) @@ [return |-> TRUE]
    ELSE IF addr_conflicts(ip.fam, addrs[i].net, ip)
         THEN LET d == addr_del(k, br, addrs[i].net, fault = "addr_del")
              IN  IF ~d.ok THEN d @@ [return |-> TRUE]
                  ELSE IF ~force_address
                  THEN Err(d.k, "already has an IP address different")
                       @@ [return |-> TRUE]
                  ELSE ensure_addr_loop_DeleteFirst(d.k, br, addrs, i + 1, ip,
                                                    force_address, fault)
         ELSE ensure_addr_loop_DeleteFirst(k, br, addrs, i + 1, ip, force_address,
                                           fault)

RECURSIVE ensure_addr_loop(_, _, _, _, _, _, _)
\* the loop of ensure_addr over the listed addresses, from position i;
\* `return` tells that the function returned inside the loop
ensure_addr_loop(k, br, addrs, i, ip, force_address, fault) ==
    IF i > Len(addrs) THEN Ok(k) @@ [return |-> FALSE]
    ELSE IF addrs[i].net.ip = ip.ip THEN Ok(k) @@ [return |-> TRUE]
    ELSE IF addr_conflicts(ip.fam, addrs[i].net, ip)
         THEN IF ~force_address
              THEN Err(k, "already has an IP address different") @@ [return |-> TRUE]
              ELSE LET d == addr_del(k, br, addrs[i].net, fault = "addr_del")
                   IN  IF ~d.ok THEN d @@ [return |-> TRUE]
                       ELSE ensure_addr_loop(d.k, br, addrs, i + 1, ip,
                                             force_address, fault)
         ELSE ensure_addr_loop(k, br, addrs, i + 1, ip, force_address, fault)

ensure_addr(k, br, ip, force_address, fault) ==
    LET l == addr_list(k, br, ip.fam, fault = "addr_list")
    IN  IF ~l.ok THEN Err(k, l.err)
        ELSE LET r == ensure_addr_loop(k, br, l.addrs, 1, ip, force_address, fault)
             IN  IF r.return THEN [ok |-> r.ok, err |-> r.err, k |-> r.k]
                 ELSE addr_add(r.k, br, ip, fault = "addr_add")

(***************************************************************************)
(* Harness for ensure_addr: a sequence of calls on one bridge that starts  *)
(* without addresses.                                                      *)
(***************************************************************************)
AddrFaults == {"none", "addr_list", "addr_del", "addr_add"}

\* the gateway candidates of the harness.  The prefix length of an IPv4
\* candidate takes no part in ensure_addr, so they all carry the same.
Candidates ==
    {n \in IpNetworks :
        /\ n.prefix \in PrefixLens
        /\ n.fam = FAMILY_V4 => n.prefix = AddrBits - 1}

\* the host after ensure_bridge("cni0") on an empty host
BridgeKernel ==
    Fresh(ensure_bridge(EmptyKernel, "cni0", 1500, FALSE, FALSE, "none").k)

Br0 == (CHOOSE l \in BridgeKernel.links : l.name = "cni0").index

InitAddr ==
    /\ ProcOff
    /\ kernel = BridgeKernel
    /\ call = NoCall

CallEnsureAddr ==
    /\ call.n < MaxCalls
    /\ \E ip \in Candidates, force \in BOOLEAN, fault \in AddrFaults :
        LET r == ensure_addr(kernel, Br0, ip, force, fault)
        IN  /\ kernel' = Fresh(r.k)
            /\ call' = [op |-> "ensure_addr", n |-> call.n + 1, ip |-> ip,
                        force |-> force, fault |-> fault, pre |-> kernel.addrs,
                        ok |-> r.ok, err |-> r.err, log |-> r.k.log]
            /\ UNCHANGED procvars

NextAddr == CallEnsureAddr

SpecAddr == InitAddr /\ [][NextAddr]_vars

(***************************************************************************)
(* Concurrent invocations of ensure_addr for one gateway candidate on one  *)
(* bridge: addr_list, every iteration of the loop over the listed          *)
(* addresses (with its addr_del) and addr_add are separate steps, and the  *)
(* steps of the invocations interleave in any order.                       *)
(***************************************************************************)
\* the addresses the bridge may hold before the invocations start
PriorAddrs ==
    {<< >>} \cup {<<[link |-> Br0, net |-> n]>> : n \in Candidates}

InitAddrConc ==
    /\ ProcOff
    /\ \E ip \in Candidates, force \in [Invocations -> BOOLEAN] :
        \E prior \in PriorAddrs :
            /\ kernel = [BridgeKernel EXCEPT !.addrs = prior]
            /\ call = [op |-> "concurrent_addr", n |-> 0, ip |-> ip, pre |-> prior,
                       overlapped |-> FALSE,
                       proc |-> [p \in Invocations |->
                                   [pc |-> "addr_list", force |-> force[p],
                                    faulted |-> FALSE, err |-> "",
                                    addrs |-> << >>, i |-> 1]]]

\* let addrs = netlink_ng::addr_list(br.as_index(), family)?
ConcAddrList(p) ==
    /\ call.op = "concurrent_addr" /\ call.proc[p].pc = "addr_list"
    /\ \E fail \in BOOLEAN :
        \E r \in {addr_list(kernel, Br0, call.ip.fam, fail)} :
            /\ kernel' = Fresh(r.k)
            /\ IF ~r.ok THEN Bail(p, r.err, fail)
               ELSE call' = [call EXCEPT !.proc[p].pc = "loop",
                                         !.proc[p].addrs = r.addrs,
                                         !.proc[p].i = 1,
                                         !.overlapped = @ \/ Overlap(p)]
    /\ UNCHANGED procvars

\* one iteration of `for addr_item in &addrs`
ConcAddrLoop(p) ==
    /\ call.op = "concurrent_addr" /\ call.proc[p].pc = "loop"
    /\ call.proc[p].i <= Len(call.proc[p].addrs)
    /\ \E fail \in BOOLEAN :
        \E addr_item \in {call.proc[p].addrs[call.proc[p].i].net} :
            IF addr_item.ip = call.ip.ip
            THEN kernel' = kernel /\ Goto(p, "done")
            ELSE IF ~addr_conflicts(call.ip.fam, addr_item, call.ip)
            THEN /\ kernel' = kernel
                 /\ call' = [call EXCEPT !.proc[p].i = @ + 1,
                                         !.overlapped = @ \/ Overlap(p)]
            ELSE IF ~call.proc[p].force
            THEN /\ kernel' = kernel
                 /\ Bail(p, "already has an IP address different", FALSE)
            ELSE \E d \in {addr_del(kernel, Br0, addr_item, fail)} :
                    /\ kernel' = Fresh(d.k)
                    /\ IF ~d.ok THEN Bail(p, d.err, fail)
                       ELSE call' = [call EXCEPT !.proc[p].i = @ + 1,
                                                 !.overlapped = @ \/ Overlap(p)]
    /\ UNCHANGED procvars

\* netlink_ng::addr_add(br.as_index(), &addr)?; Ok(())
ConcAddrAdd(p) ==
    /\ call.op = "concurrent_addr" /\ call.proc[p].pc = "loop"
    /\ call.proc[p].i > Len(call.proc[p].addrs)
    /\ \E fail \in BOOLEAN :
        \E r \in {addr_add(kernel, Br0, call.ip, fail)} :
            /\ kernel' = Fresh(r.k)
            /\ IF ~r.ok THEN Bail(p, r.err, fail) ELSE Goto(p, "done")
    /\ UNCHANGED procvars

NextAddrConc ==
    \/ \E p \in Invocations : ConcAddrList(p)
    \/ \E p \in Invocations : ConcAddrLoop(p)
    \/ \E p \in Invocations : ConcAddrAdd(p)

SpecAddrConc == InitAddrConc /\ [][NextAddrConc]_vars

\* the number of times the bridge holds the address
AddrCount(k, net) ==
    Cardinality({i \in 1 .. Len(k.addrs) :
                    k.addrs[i].link = Br0 /\ k.addrs[i].net = net})

\* C21: when invocations call ensure_addr concurrently with the same gateway
\* candidate on a bridge that holds no other address, then under every
\* interleaving of their addr_list and addr_add steps an invocation none of
\* whose kernel calls fails for a reason of the environment does not fail, and
\* once all have returned the bridge holds that address exactly once.
C21_ConcurrentEnsureAddr ==
    (/\ call.op = "concurrent_addr"
     /\ \A i \in 1 .. Len(call.pre) : call.pre[i].net = call.ip)
    => /\ \A p \in Invocations :
            call.proc[p].pc = "failed" => call.proc[p].faulted
       /\ (\A p \in Invocations : call.proc[p].pc = "done") =>
            AddrCount(kernel, call.ip) = 1

\* the addresses of a family among a list of a link's addresses
NetsOf(addrs, fam) ==
    {addrs[i].net : i \in {j \in 1 .. Len(addrs) : addrs[j].net.fam = fam}}

\* the last step was an ensure_addr call of the family during which no kernel
\* call failed
AddrCall(fam) ==
    /\ call.op = "ensure_addr"
    /\ call.fault = "none"
    /\ call.ip.fam = fam

\* C2: an ensure_addr call whose candidate's IP is already on the bridge
\* succeeds and leaves the bridge's addresses as they were, whatever
\* forceAddress is and whatever else the bridge holds.
C2_SameIpIsNoop ==
    \A fam \in Families :
        (/\ AddrCall(fam)
         /\ \E a \in NetsOf(call.pre, fam) : a.ip = call.ip.ip)
        => /\ call.ok
           /\ kernel.addrs = call.pre

\* C3: an IPv4 ensure_addr call on a bridge that holds IPv4 addresses, none
\* with the candidate's IP, fails with the conflict error and changes nothing
\* when forceAddress is false; when forceAddress is true it succeeds and the
\* candidate is then the bridge's only IPv4 address.
C3_V4ConflictPolicy ==
    (/\ AddrCall(FAMILY_V4)
     /\ NetsOf(call.pre, FAMILY_V4) # {}
     /\ \A g1 \in NetsOf(call.pre, FAMILY_V4) : g1.ip # call.ip.ip)
    => IF call.force
       THEN /\ call.ok
            /\ NetsOf(kernel.addrs, FAMILY_V4) = {call.ip}
       ELSE /\ ~call.ok
            /\ call.err = "already has an IP address different"
            /\ kernel.addrs = call.pre

\* a forced IPv4 call has replaced the bridge's address G1 by the candidate G2
C3_Witness ==
    /\ AddrCall(FAMILY_V4)
    /\ call.force
    /\ call.ok
    /\ \E g1 \in NetsOf(call.pre, FAMILY_V4) :
            g1.ip # call.ip.ip /\ g1 \notin NetsOf(kernel.addrs, FAMILY_V4)
    /\ call.ip \in NetsOf(kernel.addrs, FAMILY_V4)

\* the positions of the bridge's addresses of a family
AddrsOf(fam) ==
    {i \in 1 .. Len(kernel.addrs) :
        kernel.addrs[i].link = Br0 /\ kernel.addrs[i].net.fam = fam}

C32_ConflictChangesNothing ==
    call.op = "ensure_addr" /\ ~call.ok
    /\ call.err = "already has an IP address different" =>
        /\ ~call.force
        /\ kernel.addrs = call.pre
        /\ call.log = << >>

\* a call without forceAddress has failed on a conflict with the second of two
\* addresses of the bridge
C32_Witness ==
    /\ call.op = "ensure_addr" /\ ~call.ok /\ ~call.force
    /\ call.err = "already has an IP address different"
    /\ Len(call.pre) >= 2
    /\ ~addr_conflicts(call.ip.fam, call.pre[1].net, call.ip)

\* two subnets overlap: either network contains the other's IP
Overlaps(a, b) == contains(a, b.fam, b.ip) \/ contains(b, a.fam, a.ip)

\* C4: an IPv6 ensure_addr call whose candidate's IP is not on the bridge
\* conflicts exactly with the bridge's IPv6 addresses whose subnet overlaps the
\* candidate's.  Without such an address the call succeeds, whatever
\* forceAddress is, and the candidate joins the addresses already there; with
\* one, the call fails and changes nothing unless forceAddress is true, and
\* then it replaces the overlapping addresses by the candidate.
C4_V6OverlapPolicy ==
    (/\ AddrCall(FAMILY_V6)
     /\ \A a \in NetsOf(call.pre, FAMILY_V6) : a.ip # call.ip.ip)
    => LET old  == NetsOf(call.pre, FAMILY_V6)
           over == {a \in old : Overlaps(a, call.ip)}
       IN  IF over = {}
           THEN /\ call.ok
                /\ kernel.addrs = Append(call.pre, [link |-> Br0, net |-> call.ip])
           ELSE IF call.force
           THEN /\ call.ok
                /\ NetsOf(kernel.addrs, FAMILY_V6) = (old \ over) \cup {call.ip}
           ELSE /\ ~call.ok
                /\ call.err = "already has an IP address different"
                /\ kernel.addrs = call.pre

\* an unforced IPv6 call has added a second, non-overlapping subnet
C4_Witness ==
    /\ AddrCall(FAMILY_V6)
    /\ ~call.force
    /\ call.ok
    /\ \E a \in NetsOf(call.pre, FAMILY_V6) :
            /\ ~Overlaps(a, call.ip)
            /\ {a, call.ip} \subseteq NetsOf(kernel.addrs, FAMILY_V6)
    /\ Cardinality(NetsOf(kernel.addrs, FAMILY_V6)) = Cardinality(NetsOf(call.pre, FAMILY_V6)) + 1

(***************************************************************************)
(* Veth provisioner (src/ip/src/link.rs)                                   *)
(***************************************************************************)
\* the loop bound of make_veth
VETH_ATTEMPTS == 10

\* netns_ng: Netns::set, entering a namespace
setns(k, ns, fail) ==
    IF fail THEN Err(k, "EPERM") ELSE Ok([k EXCEPT !.ns = ns])

\* random_veth_name: the n-th name the random generator yields; `rand` is the
\* stream of the generator, repeated from its start when it ends
random_veth_name(rand, n) == rand[((n - 1) % Len(rand)) + 1]

\* a make_veth_pair without its ensure!(cur_ns == container_ns)
make_veth_pair_NoNsCheck(k, container_veth_name, host_veth_name, host_ns, container_ns, fault) ==
    Let(link_add_veth(k, container_veth_name, host_veth_name, host_ns,
                      fault = "link_add"), LAMBDA a :
        IF ~a.ok THEN a @@ [link |-> NoLink]
        ELSE LET r == link_by_name(a.k, container_veth_name, fault = "link_by_name")
             IN  IF ~r.ok THEN r
                 ELSE IF fault # "link_missing" /\ r.link # NoLink THEN r
                 ELSE LET d == link_del(a.k, container_veth_name, fault = "link_del")
                      IN  IF ~d.ok THEN d @@ [link |-> NoLink]
                          ELSE Err(d.k, "veth not found") @@ [link |-> NoLink])

\* make_veth_pair, called from within the container's network namespace
make_veth_pair(k, container_veth_name, host_veth_name, host_ns, container_ns, fault) ==
    IF k.ns # container_ns THEN Err(k, "netns not match") @@ [link |-> NoLink]
    ELSE Let(link_add_veth(k, container_veth_name, host_veth_name, host_ns,
                           fault = "link_add"), LAMBDA a :
             IF ~a.ok THEN a @@ [link |-> NoLink]
             ELSE LET r == link_by_name(a.k, container_veth_name,
                                        fault = "link_by_name")
                  IN  IF ~r.ok THEN r
                      ELSE IF fault # "link_missing" /\ r.link # NoLink THEN r
                      ELSE LET d == link_del(a.k, container_veth_name,
                                             fault = "link_del")
                           IN  IF ~d.ok THEN d @@ [link |-> NoLink]
                               ELSE Err(d.k, "veth not found") @@ [link |-> NoLink])

\* one iteration of the loop of make_veth, i counting from 0
make_veth_iter(k, i, container_veth_name, host_veth_name, host_ns, container_ns, rand, fault) ==
    IF i >= VETH_ATTEMPTS
    THEN Err(k, "failed to create veth pair")
            @@ [peer_name |-> "", link |-> NoLink, attempts |-> i]
    ELSE LET peer_name == IF host_veth_name = "" THEN random_veth_name(rand, i + 1)
                          ELSE host_veth_name
         IN  Let(make_veth_pair(k, container_veth_name, peer_name, host_ns,
                                container_ns, fault), LAMBDA res :
             IF res.ok
             THEN Ok(res.k) @@ [peer_name |-> peer_name, link |-> res.link,
                                attempts |-> i + 1]
             ELSE Err(res.k, "make_veth_pair failed")
                    @@ [peer_name |-> peer_name, link |-> NoLink, attempts |-> i + 1])

make_veth(k, container_veth_name, host_veth_name, host_ns, container_ns, rand, fault) ==
    IF k.ns # container_ns
    THEN Err(k, "netns not match") @@ [peer_name |-> "", link |-> NoLink, attempts |-> 0]
    ELSE make_veth_iter(k, 0, container_veth_name, host_veth_name, host_ns,
                        container_ns, rand, fault)

\* the closure ip::setup_veth runs in the host namespace: bring the peer up
setup_veth_host_up(k, host_veth_name, fault) ==
    LET r == link_by_name(k, host_veth_name, fault = "host_link_by_name")
    IN  IF ~r.ok THEN r
        ELSE IF r.link = NoLink THEN Err(k, "veth not found") @@ [link |-> NoLink]
        ELSE LET u == link_set_up(k, r.link.index, fault = "host_link_set_up")
             IN  IF ~u.ok THEN u @@ [link |-> NoLink] ELSE u @@ [link |-> r.link]

\* a setup_veth_in_host that gives exec_netns! the namespaces the wrong way round
setup_veth_in_host_SwappedNs(k, current_ns, host_ns, host_veth_name, fault) ==
    LET e == setns(k, current_ns, fault = "setns_host")
    IN  IF ~e.ok THEN e @@ [link |-> NoLink]
        ELSE LET r == setup_veth_host_up(e.k, host_veth_name, fault)
             IN  [r EXCEPT !.k = setns(r.k, host_ns, FALSE).k]

\* netns_ng::exec_netns! around setup_veth_host_up: enter host_ns, run the
\* closure, return to current_ns
setup_veth_in_host(k, current_ns, host_ns, host_veth_name, fault) ==
    LET e == setns(k, host_ns, fault = "setns_host")
    IN  IF ~e.ok THEN e @@ [link |-> NoLink]
        ELSE LET r == setup_veth_host_up(e.k, host_veth_name, fault)
             IN  [r EXCEPT !.k = setns(r.k, current_ns, FALSE).k]

\* ip::setup_veth, to be called from inside the container namespace
ip_setup_veth(k, container_veth_name, host_veth_name, host_ns, container_ns, rand, fault) ==
    IF k.ns # container_ns
    THEN Err(k, "netns not match")
            @@ [host_veth |-> NoLink, container_veth |-> NoLink, attempts |-> 0]
    ELSE Let(make_veth(k, container_veth_name, host_veth_name, host_ns,
                       container_ns, rand, fault), LAMBDA m :
             IF ~m.ok
             THEN [ok |-> FALSE, err |-> m.err, k |-> m.k, host_veth |-> NoLink,
                   container_veth |-> NoLink, attempts |-> m.attempts]
             ELSE Let(setup_veth_in_host(m.k, k.ns, host_ns, m.peer_name, fault),
                      LAMBDA h :
                      [ok |-> h.ok, err |-> h.err, k |-> h.k, host_veth |-> h.link,
                       container_veth |-> IF h.ok THEN m.link ELSE NoLink,
                       attempts |-> m.attempts]))

(***************************************************************************)
(* Harness for ip::setup_veth: calls for the container interface eth0 from *)
(* the container namespace or, wrongly, from the host namespace.           *)
(***************************************************************************)
\* number of ip::setup_veth calls in one behaviour of SpecVeth
MaxVethCalls == 2

VethNames == {"veth00000001", "veth00000002"}

\* the streams of the random name generator
RandStreams == [1 .. 2 -> VethNames]

VethFaults ==
    {"none", "link_add", "link_by_name", "link_missing", "link_del", "setns_host",
     "host_link_by_name", "host_link_set_up"}

\* a host on which a device already carries the first of the veth names
TakenKernel ==
    [BridgeKernel EXCEPT
        !.links = @ \cup {[NoLink EXCEPT !.index = 2, !.name = "veth00000001",
                                         !.kind = "dummy", !.ns = HostNs]},
        !.nextIndex = 3]

InitVeth ==
    /\ ProcOff
    /\ kernel \in {BridgeKernel, TakenKernel}
    /\ call = NoCall

CallSetupVeth ==
    /\ call.n < MaxVethCalls
    /\ \E ns \in {HostNs, ContNs}, host_veth_name \in {"", "veth00000002"},
          rand \in RandStreams, fault \in VethFaults :
        \E r \in {ip_setup_veth([kernel EXCEPT !.ns = ns], "eth0", host_veth_name,
                                 HostNs, ContNs, rand, fault)} :
            /\ kernel' = Fresh([r.k EXCEPT !.ns = HostNs])
            /\ call' = [op |-> "setup_veth", n |-> call.n + 1, ns |-> ns,
                        host_veth_name |-> host_veth_name, rand |-> rand,
                        fault |-> fault, pre |-> kernel, ok |-> r.ok, err |-> r.err,
                        attempts |-> r.attempts, host_veth |-> r.host_veth,
                        container_veth |-> r.container_veth, ns_after |-> r.k.ns,
                        log |-> r.k.log]
            /\ UNCHANGED procvars

\* C5: a call of ip::setup_veth from the container namespace with a random
\* host-side name, during which no kernel call fails for another reason than a
\* name that is taken, makes at most VETH_ATTEMPTS attempts, fails only after
\* VETH_ATTEMPTS attempts, and so succeeds when eth0 is free and one of the
\* first VETH_ATTEMPTS random names is free.
C5_RetriesOnCollision ==
    (/\ call.op = "setup_veth"
     /\ call.ns = ContNs
     /\ call.host_veth_name = ""
     /\ call.fault = "none")
    => /\ call.attempts <= VETH_ATTEMPTS
       /\ ~call.ok => call.attempts = VETH_ATTEMPTS
       /\ (/\ ~\E l \in LinksIn(call.pre, ContNs) : l.name = "eth0"
           /\ \E i \in 1 .. VETH_ATTEMPTS :
                ~\E l \in LinksIn(call.pre, HostNs) :
                    l.name = random_veth_name(call.rand, i))
          => call.ok

(***************************************************************************)
(* Values of the ADD flow (src/cni-core/src/types.rs)                      *)
(***************************************************************************)
\* an IpAddr
IpAddr(fam, ip) == [fam |-> fam, ip |-> ip]

Net(fam, ip, prefix) == [fam |-> fam, ip |-> ip, prefix |-> prefix]

\* the all-ones address, the last one of a family
LastIp == 2 ^ AddrBits - 1

(***************************************************************************)
(* src/ip/src/lib.rs                                                       *)
(***************************************************************************)
\* next_ip: Some(ip + 1), None on overflow; todo!() for IPv6
next_ip(ip) ==
    IF ip.fam = FAMILY_V4
    THEN IF (ip.ip + 1) % (2 ^ AddrBits) # ip.ip + 1
         THEN [panic |-> FALSE, v |-> None]
         ELSE [panic |-> FALSE, v |-> Some(IpAddr(FAMILY_V4, ip.ip + 1))]
    ELSE [panic |-> TRUE, v |-> None]

(***************************************************************************)
(* next_ip on the octets of an Ipv4Addr.  An octet has OctetBits bits here, *)
(* the u32 of the code NumOctets * OctetBits.                              *)
(***************************************************************************)
\* width of an octet
OctetBits == 2

\* Ipv4Addr::octets() is [u8; 4]
NumOctets == 4

Octet == 0 .. 2 ^ OctetBits - 1

Ipv4Addrs == [1 .. NumOctets -> Octet]

RECURSIVE from_le_bytes(_)
\* the number whose least significant octet comes first
from_le_bytes(octets) ==
    IF octets = << >> THEN 0
    ELSE octets[1] + 2 ^ OctetBits * from_le_bytes(Tail(octets))

RECURSIVE from_be_bytes(_)
\* u32::from_be_bytes: the most significant octet comes first
from_be_bytes(octets) ==
    IF octets = << >> THEN 0
    ELSE octets[Len(octets)]
         + 2 ^ OctetBits * from_be_bytes(SubSeq(octets, 1, Len(octets) - 1))

\* u32::to_be_bytes
to_be_bytes(num) ==
    [i \in 1 .. NumOctets |->
        (num \div 2 ^ (OctetBits * (NumOctets - i))) % 2 ^ OctetBits]

\* u32::overflowing_add
overflowing_add(num, rhs) ==
    [num |-> (num + rhs) % 2 ^ (OctetBits * NumOctets),
     overflow |-> num + rhs >= 2 ^ (OctetBits * NumOctets)]

\* next_ip on the octets of the address: status "panic" is the todo!() of the
\* IPv6 arm
next_ip_octets(fam, octets) ==
    IF fam = FAMILY_V4
    THEN LET r == overflowing_add(from_be_bytes(octets), 1)
         IN  IF r.overflow THEN [status |-> "ok", v |-> None]
             ELSE [status |-> "ok", v |-> Some(to_be_bytes(r.num))]
    ELSE [status |-> "panic", v |-> None]

InitNextIp ==
    /\ ProcOff
    /\ kernel = EmptyKernel
    /\ call = NoCall

\* one call of next_ip in a behaviour
CallNextIp ==
    /\ call.op = "none"
    /\ \E fam \in Families, octets \in Ipv4Addrs :
        \E r \in {next_ip_octets(fam, octets)} :
            call' = [op |-> "next_ip", n |-> 0, fam |-> fam, ip |-> octets,
                     status |-> r.status, v |-> r.v]
    /\ UNCHANGED <<kernel, procvars>>

NextNextIp == CallNextIp

SpecNextIp == InitNextIp /\ [][NextNextIp]_vars

\* the octets from position i on are all ones
AllOnesFrom(octets, i) == \A j \in i .. Len(octets) : octets[j] = 2 ^ OctetBits - 1

\* C29: next_ip of an IPv4 address returns the address whose big-endian value
\* is one greater: the last octet that is not all ones is incremented, the
\* octets after it, all ones, become zero, and the octets before it stay; for
\* the address of all ones, where the increment overflows, it returns none.
C29_NextIpIncrements ==
    call.op = "next_ip" /\ call.fam = FAMILY_V4 =>
        /\ call.status = "ok"
        /\ AllOnesFrom(call.ip, 1) <=> call.v = None
        /\ call.v # None =>
              \E c \in 1 .. NumOctets :
                  /\ AllOnesFrom(call.ip, c + 1)
                  /\ call.v[1][c] = call.ip[c] + 1
                  /\ call.v[1][c] <= 2 ^ OctetBits - 1
                  /\ \A j \in 1 .. c - 1 : call.v[1][j] = call.ip[j]
                  /\ \A j \in c + 1 .. NumOctets : call.v[1][j] = 0

\* the increment has carried across two octet boundaries
C29_Witness ==
    /\ call.op = "next_ip" /\ call.fam = FAMILY_V4
    /\ AllOnesFrom(call.ip, NumOctets - 1)
    /\ ~AllOnesFrom(call.ip, NumOctets - 2)
    /\ call.v # None

\* an enable_ip_forward that enables forwarding for the other family
enable_ip_forward_OtherFamily(k, family, fault) ==
    IF family = FAMILY_V6
    THEN sysctl_set(k, "net/ipv4/ip_forward", fault = "sysctl_set")
    ELSE sysctl_set(k, "net/ipv6/conf/all/forwarding", fault = "sysctl_set")

\* enable_ip_forward of src/bridge/src/main.rs with enable_ipv4_forward and
\* enable_ipv6_forward
enable_ip_forward(k, family, fault) ==
    IF family = FAMILY_V4
    THEN sysctl_set(k, "net/ipv4/ip_forward", fault = "sysctl_set")
    ELSE IF family = FAMILY_V6
    THEN sysctl_set(k, "net/ipv6/conf/all/forwarding", fault = "sysctl_set")
    ELSE Err(k, "not support family")

(***************************************************************************)
(* Gateway calculator (src/bridge/src/main.rs)                             *)
(***************************************************************************)
\* a scan that finds no default route
default_route_found_Never(routes) == FALSE

\* the scan of calc_gateway for a default route
default_route_found(routes) ==
    /\ routes # None
    /\ \E i \in 1 .. Len(routes[1]) :
          routes[1][i].gw # None /\ routes[1][i].dst.ip = 0

\* ipam_result.routes.get_or_insert_with(Vec::new).push(route)
push_route(routes, route) ==
    IF routes = None THEN Some(<<route>>) ELSE Some(Append(routes[1], route))

RECURSIVE calc_gateway_loop(_, _, _, _, _, _)
\* the loop of calc_gateway from assignment i on; status is "ok", "err" or
\* "panic"
calc_gateway_loop(ips, routes, gws, i, is_gw, is_default_gw) ==
    IF i > Len(ips)
    THEN [status |-> "ok", err |-> "", ips |-> ips, routes |-> routes, gws |-> gws]
    ELSE LET ip0  == [ips[i] EXCEPT !.interface = Some(2)]
             derive == ip0.gateway = None /\ is_gw
             nxt  == next_ip(ip0.address)
             ip1  == IF derive THEN [ip0 EXCEPT !.gateway = nxt.v] ELSE ip0
             family == ip1.address.fam
             found == is_default_gw /\ default_route_found(routes)
             routes1 == IF is_default_gw /\ ~found
                        THEN push_route(routes,
                                 [dst |-> Net(FAMILY_V4, 0, 0), gw |-> ip1.gateway])
                        ELSE routes
             ips1 == [ips EXCEPT ![i] = ip1]
         IN  IF derive /\ nxt.panic
             THEN [status |-> "panic", err |-> "not yet implemented", ips |-> ips,
                   routes |-> routes, gws |-> gws]
             ELSE IF ~is_gw
             THEN calc_gateway_loop(ips1, routes1, gws, i + 1, is_gw, is_default_gw)
             ELSE IF ip1.gateway = None
             THEN [status |-> "panic", err |-> "called Option::unwrap() on a None value",
                   ips |-> ips1, routes |-> routes1, gws |-> gws]
             ELSE IF ip1.gateway[1].fam # family
             THEN [status |-> "err", err |-> "invalid address", ips |-> ips1,
                   routes |-> routes1, gws |-> gws]
             ELSE calc_gateway_loop(ips1, routes1,
                      Append(gws, [gws |-> <<Net(family, ip1.gateway[1].ip,
                                                 ip1.address.prefix)>>,
                                   family |-> family,
                                   default_route_found |-> found]),
                      i + 1, is_gw, is_default_gw)

\* calc_gateway: result.ips and result.routes are the updated fields of the
\* ExecResult, result.gws the returned Vec<GatewayInfo>
calc_gateway(ipam_result, net_conf) ==
    IF ipam_result.ips = None
    THEN [status |-> "err", err |-> "IPAM plugin returned missing IP config",
          ips |-> None, routes |-> ipam_result.routes, gws |-> << >>]
    ELSE LET r == calc_gateway_loop(ipam_result.ips[1], ipam_result.routes, << >>, 1,
                                    net_conf.is_gw, net_conf.is_default_gw)
         IN  [r EXCEPT !.ips = Some(r.ips)]

(***************************************************************************)
(* Container-side interface configuration (src/ipam/src/lib.rs)            *)
(***************************************************************************)
\* netlink_ng::route_add_ecmp
route_add_ecmp(k, route, fail) ==
    IF fail THEN Err(k, "ENETUNREACH")
    ELSE Ok(Logged([k EXCEPT !.routes = Append(@, route)], "route_add", route.link_index))

RECURSIVE config_interface_addrs(_, _, _, _, _)
\* the loop of config_interface over the assignments, from position i
config_interface_addrs(k, link, ips, i, fault) ==
    IF i > Len(ips) THEN Ok(k)
    ELSE IF ips[i].interface = None
    THEN config_interface_addrs(k, link, ips, i + 1, fault)
    ELSE LET a == addr_add(k, link.index, ips[i].address, fault = "addr_add")
         IN  IF ~a.ok THEN a
             ELSE config_interface_addrs(a.k, link, ips, i + 1, fault)

RECURSIVE config_interface_routes(_, _, _, _, _)
\* the loop of config_interface over the routes, from position i
config_interface_routes(k, link, routes, i, fault) ==
    IF i > Len(routes) THEN Ok(k)
    ELSE LET r == route_add_ecmp(k, [dst |-> routes[i].dst, link_index |-> link.index,
                                     gw |-> routes[i].gw], fault = "route_add")
         IN  IF ~r.ok THEN r
             ELSE config_interface_routes(r.k, link, routes, i + 1, fault)

config_interface(k, if_name, exec_result, fault) ==
    LET l == link_by_name(k, if_name, fault = "link_by_name")
    IN  IF ~l.ok THEN Err(k, l.err)
        ELSE IF l.link = NoLink THEN Err(k, "link not found")
        ELSE IF exec_result.ips = None THEN Err(k, "ips not found")
        ELSE Let(config_interface_addrs(k, l.link, exec_result.ips[1], 1, fault),
                 LAMBDA a :
                 IF ~a.ok THEN a
                 ELSE Let(link_set_up(a.k, l.link.index, fault = "link_set_up"),
                          LAMBDA u :
                          IF ~u.ok THEN u
                          ELSE IF exec_result.routes = None THEN u
                          ELSE config_interface_routes(u.k, l.link,
                                   exec_result.routes[1], 1, fault)))

(***************************************************************************)
(* Masquerade rules (src/ip/src/ip_masq.rs, src/utils/src/iptables.rs)     *)
(***************************************************************************)
MAX_CHAIN_LENGTH == 28

CHAIN_PREFIX == <<"C", "N", "I", "-">>

POSTROUTING == <<"POSTROUTING">>

HexDigits ==
    <<"0", "1", "2", "3", "4", "5", "6", "7", "8", "9", "a", "b", "c", "d", "e", "f">>

\* Sha512 stands for the SHA-512 digest: 64 bytes that depend on nothing but
\* the hashed string
Sha512(to_hash) ==
    LET seed == 131 * Len(to_hash)
                + (CASE to_hash = "mynetc1" -> 17
                     [] to_hash = "mynetc2" -> 59
                     [] OTHER -> 0)
    IN  [i \in 1 .. 64 |-> (seed * i + 7 * i * i) % 256]

\* to_hex_string: two lower-case hex digits per byte
to_hex_string(bytes) ==
    [i \in 1 .. 2 * Len(bytes) |->
        IF i % 2 = 1 THEN HexDigits[(bytes[(i + 1) \div 2] \div 16) + 1]
        ELSE HexDigits[(bytes[i \div 2] % 16) + 1]]

\* a format_chain_name that returns the whole of prefix and digest
format_chain_name_Untruncated(name, id) ==
    CHAIN_PREFIX \o to_hex_string(Sha512(name \o id))

\* format_chain_name: a string is the sequence of its characters
format_chain_name(name, id) ==
    LET result == CHAIN_PREFIX \o to_hex_string(Sha512(name \o id))
    IN  SubSeq(result, 1, Min(MAX_CHAIN_LENGTH, Len(result)))

(***************************************************************************)
(* Harness for format_chain_name: a sequence of calls, each remembered     *)
(* with its result.                                                        *)
(***************************************************************************)
\* number of format_chain_name calls in one behaviour of SpecChain
MaxChainCalls == 3

ChainNetNames == {"", "mynet", "mynetc"}

ChainContainerIds == {"", "1", "c1", "c2"}

InitChain ==
    /\ ProcOff
    /\ kernel = EmptyKernel
    /\ call = NoCall

\* the calls made so far, each with its result
ChainCalls == IF call.op = "none" THEN {} ELSE call.calls

CallFormatChainName ==
    /\ call.n < MaxChainCalls
    /\ \E name \in ChainNetNames, id \in ChainContainerIds :
        \E out \in {format_chain_name(name, id)} :
            call' = [op |-> "format_chain_name", n |-> call.n + 1, name |-> name,
                     id |-> id, out |-> out, earlier |-> ChainCalls,
                     calls |-> ChainCalls \cup {<<name, id, out>>}]
    /\ UNCHANGED <<kernel, procvars>>

NextChain == CallFormatChainName

SpecChain == InitChain /\ [][NextChain]_vars

multicast_net(fam) == Net(fam, 2 ^ (AddrBits - 1), 1)

\* iptables list_chains("nat") of a family: POSTROUTING is built in
list_chains(k, fam) ==
    {POSTROUTING} \cup {c.name : c \in {x \in k.nat.chains : x.fam = fam}}

\* iptables new_chain("nat", chain)
new_chain(k, fam, chain, fail) ==
    IF fail THEN Err(k, "iptables failed")
    ELSE IF chain \in list_chains(k, fam) THEN Err(k, "Chain already exists")
    ELSE Ok(Logged([k EXCEPT !.nat.chains = @ \cup {[fam |-> fam, name |-> chain]}],
                   "new_chain", 0))

\* iptables append_unique("nat", chain, rule) of the iptables crate: an error
\* when the chain holds the rule already, append otherwise
append_unique(k, fam, chain, rule, fail) ==
    IF fail THEN Err(k, "iptables failed")
    ELSE IF chain \notin list_chains(k, fam) THEN Err(k, "No chain by that name")
    ELSE LET entry == [fam |-> fam, chain |-> chain, rule |-> rule]
         IN  IF \E i \in 1 .. Len(k.nat.rules) : k.nat.rules[i] = entry
             THEN Err(k, "the rule exists in the table/chain")
             ELSE Ok(Logged([k EXCEPT !.nat.rules = Append(@, entry)],
                            "append_rule", 0))

Rule(match, net, jump, chain) ==
    [match |-> match, net |-> net, jump |-> jump, chain |-> chain]

\* the three append_unique calls of setup_ip_masq
setup_ip_masq_rules(k, ip, chain_name, fault) ==
    LET fam == ip.fam
        a == append_unique(k, fam, chain_name, Rule("-d", ip, "ACCEPT", << >>),
                           fault = "append_accept")
    IN  IF ~a.ok THEN a
        ELSE LET m == append_unique(a.k, fam, chain_name,
                          Rule("! -d", multicast_net(fam), "MASQUERADE", << >>),
                          fault = "append_masquerade")
             IN  IF ~m.ok THEN m
                 ELSE append_unique(m.k, fam, POSTROUTING,
                          Rule("-s", Net(fam, ip.ip, AddrBits), "JUMP", chain_name),
                          fault = "append_jump")

\* setup_ip_masq; status is "ok", "err" or "panic" (iptables::new(..).unwrap())
setup_ip_masq(k, ip, chain_name, fault) ==
    IF fault = "iptables_new"
    THEN Err(k, "called Result::unwrap() on an Err value") @@ [status |-> "panic"]
    ELSE IF fault = "list_chains" THEN Err(k, "iptables failed") @@ [status |-> "err"]
    ELSE LET c == IF chain_name \in list_chains(k, ip.fam) THEN Ok(k)
                  ELSE new_chain(k, ip.fam, chain_name, fault = "new_chain")
             r == IF ~c.ok THEN c ELSE setup_ip_masq_rules(c.k, ip, chain_name, fault)
         IN  r @@ [status |-> IF r.ok THEN "ok" ELSE "err"]

(***************************************************************************)
(* Harness for setup_ip_masq: repeated calls on one host.                  *)
(***************************************************************************)
\* number of setup_ip_masq calls in one behaviour of SpecMasq
MaxMasqCalls == 3

MasqIps == {Net(FAMILY_V4, 1, AddrBits - 1), Net(FAMILY_V4, 2, AddrBits - 1),
            Net(FAMILY_V6, 1, AddrBits - 1)}

MasqChains == {format_chain_name("mynet", "c1"), format_chain_name("mynet", "c2")}

MasqFaults == {"none", "iptables_new", "list_chains", "new_chain", "append_accept",
               "append_masquerade", "append_jump"}

InitMasq ==
    /\ ProcOff
    /\ kernel = EmptyKernel
    /\ call = NoCall

\* the calls that have succeeded so far
MasqDone == IF call.op = "none" THEN {} ELSE call.done

CallSetupIpMasq ==
    /\ call.n < MaxMasqCalls
    /\ \E ip \in MasqIps, chain_name \in MasqChains, fault \in MasqFaults :
        \E r \in {setup_ip_masq(kernel, ip, chain_name, fault)} :
            /\ kernel' = Fresh(r.k)
            /\ call' = [op |-> "setup_ip_masq", n |-> call.n + 1, ip |-> ip,
                        chain_name |-> chain_name, fault |-> fault,
                        status |-> r.status, err |-> r.err,
                        repeated |-> <<ip, chain_name>> \in MasqDone,
                        done |-> IF r.status = "ok"
                                 THEN MasqDone \cup {<<ip, chain_name>>}
                                 ELSE MasqDone]
    /\ UNCHANGED procvars

NextMasq == CallSetupIpMasq

SpecMasq == InitMasq /\ [][NextMasq]_vars

\* the number of times the NAT table of a family holds a rule in a chain
RuleCount(k, fam, chain, rule) ==
    Cardinality({i \in 1 .. Len(k.nat.rules) :
                    k.nat.rules[i] = [fam |-> fam, chain |-> chain, rule |-> rule]})

\* C19: setup_ip_masq is idempotent: a call with an address and a chain name
\* that an earlier call has set up succeeds, and leaves the chain and each of
\* the three rules (ACCEPT to the assigned subnet, MASQUERADE except
\* multicast, POSTROUTING jump from the assigned address) present once.
C19_MasqIdempotent ==
    call.op = "setup_ip_masq" /\ call.repeated /\ call.fault = "none" =>
        /\ call.status = "ok"
        /\ call.chain_name \in list_chains(kernel, call.ip.fam)
        /\ RuleCount(kernel, call.ip.fam, call.chain_name,
                     Rule("-d", call.ip, "ACCEPT", << >>)) = 1
        /\ RuleCount(kernel, call.ip.fam, call.chain_name,
                     Rule("! -d", multicast_net(call.ip.fam), "MASQUERADE", << >>)) = 1
        /\ RuleCount(kernel, call.ip.fam, POSTROUTING,
                     Rule("-s", Net(call.ip.fam, call.ip.ip, AddrBits), "JUMP",
                          call.chain_name)) = 1

(***************************************************************************)
(* setup_bridge and setup_veth of src/bridge/src/main.rs                   *)
(***************************************************************************)
Interface(name, mac, sandbox) == [name |-> name, mac |-> mac, sandbox |-> sandbox]

\* the hardware address of a device: MacOf stands for the address the kernel
\* gave the device with this index
MacOf(link) == Some(link.index)

\* setup_bridge: br_name is net_conf.br_name or "cni0", the MTU defaults to 0
setup_bridge(k, net_conf, fault) ==
    LET r == ensure_bridge(k, net_conf.br_name, net_conf.mtu, net_conf.promisc_mode,
                           net_conf.vlan_filtering, fault)
    IN  IF ~r.ok THEN r @@ [interface |-> Interface("", None, None)]
        ELSE r @@ [interface |-> Interface(r.link.name, MacOf(r.link), None)]

\* a setup_veth that leaves the host veth without master
setup_veth_attach_NoMaster(k, br, host_name, fault) ==
    LET h == link_by_name(k, host_name, fault = "veth_link_by_name")
    IN  IF ~h.ok THEN h
        ELSE IF h.link = NoLink THEN Err(k, "veth not found") @@ [link |-> NoLink]
        ELSE Ok(k) @@ [link |-> h.link]

\* setup_veth without its leading exec_netns!: resolve the host veth in the
\* host namespace and attach it to the bridge
setup_veth_attach(k, br, host_name, fault) ==
    LET h == link_by_name(k, host_name, fault = "veth_link_by_name")
    IN  IF ~h.ok THEN h
        ELSE IF h.link = NoLink THEN Err(k, "veth not found") @@ [link |-> NoLink]
        ELSE LET m == link_set_master(k, h.link.index, br.index,
                                      fault = "link_set_master")
             IN  m @@ [link |-> IF m.ok THEN h.link ELSE NoLink]

\* setup_veth: exec_netns!(host_ns, netns, ..) around ip::setup_veth, then the
\* attachment to the bridge
setup_veth(k, host_ns, netns, br, if_name, rand, fault) ==
    LET none == [host |-> Interface("", None, None),
                 container |-> Interface("", None, None)]
        e == setns(k, netns, fault = "setns_netns")
    IN  IF ~e.ok THEN e @@ none
        ELSE Let(ip_setup_veth(e.k, if_name, "", host_ns, netns, rand, fault),
                 LAMBDA v :
             LET back == setns(v.k, host_ns, FALSE).k
             IN  IF ~v.ok THEN Err(back, v.err) @@ none
                 ELSE Let(setup_veth_attach(back, br, v.host_veth.name, fault),
                          LAMBDA a :
                          IF ~a.ok THEN [ok |-> FALSE, err |-> a.err, k |-> a.k] @@ none
                          ELSE Ok(a.k) @@
                               [host |-> Interface(v.host_veth.name, MacOf(a.link), None),
                                container |-> Interface(v.container_veth.name,
                                                        MacOf(v.container_veth),
                                                        Some(netns))]))

(***************************************************************************)
(* Harness for the veth provisioner, continued: the bridge plugin's        *)
(* setup_veth, called from the host namespace.                             *)
(***************************************************************************)
BridgeVethFaults == VethFaults \cup {"setns_netns", "veth_link_by_name", "link_set_master"}

CallBridgeSetupVeth ==
    /\ call.n < MaxVethCalls
    /\ \E rand \in RandStreams, fault \in BridgeVethFaults :
        \E br \in {bridge_by_name(kernel, "cni0", "none").link} :
        \E r \in {setup_veth(kernel, HostNs, ContNs, br, "eth0", rand, fault)} :
            /\ kernel' = Fresh([r.k EXCEPT !.ns = HostNs])
            /\ call' = [op |-> "bridge_setup_veth", n |-> call.n + 1, ns |-> kernel.ns,
                        host_veth_name |-> "", rand |-> rand,
                        fault |-> fault, pre |-> kernel, ok |-> r.ok, err |-> r.err,
                        attempts |-> 0, host_veth |-> NoLink,
                        container_veth |-> NoLink, ns_after |-> r.k.ns,
                        log |-> r.k.log]
            /\ UNCHANGED procvars

\* make_veth and make_veth_pair, entered directly
CallMakeVeth ==
    /\ call.n < MaxVethCalls
    /\ \E ns \in {HostNs, ContNs}, fn \in {"make_veth", "make_veth_pair"},
          rand \in RandStreams,
          fault \in {"none", "link_add", "link_by_name", "link_missing"} :
        \E r \in {IF fn = "make_veth"
                  THEN make_veth([kernel EXCEPT !.ns = ns], "eth0", "", HostNs, ContNs,
                                 rand, fault)
                  ELSE make_veth_pair([kernel EXCEPT !.ns = ns], "eth0", rand[1], HostNs,
                                      ContNs, fault)} :
            /\ kernel' = Fresh([r.k EXCEPT !.ns = HostNs])
            /\ call' = [op |-> fn, n |-> call.n + 1, ns |-> ns,
                        host_veth_name |-> "", rand |-> rand,
                        fault |-> fault, pre |-> kernel, ok |-> r.ok, err |-> r.err,
                        attempts |-> 0, host_veth |-> NoLink,
                        container_veth |-> r.link, ns_after |-> r.k.ns,
                        log |-> r.k.log]
            /\ UNCHANGED procvars

NextVeth == CallSetupVeth \/ CallBridgeSetupVeth \/ CallMakeVeth

SpecVeth == InitVeth /\ [][NextVeth]_vars

\* C11: every namespace switch is undone on every exit path.  After the bridge
\* plugin's setup_veth returns, with success or with an error raised inside
\* the container namespace, the current namespace is the host namespace it
\* started in; after ip::setup_veth, entered in the container namespace, has
\* switched to the host namespace to bring the peer up, the current namespace
\* is the container namespace again, whether or not that succeeded.
C11_NamespaceRestored ==
    /\ call.op = "bridge_setup_veth" => call.ns_after = call.ns /\ call.ns = HostNs
    /\ call.op = "setup_veth" /\ call.ns = ContNs => call.ns_after = ContNs

\* a call of ip::setup_veth whose closure in the host namespace failed
C11_Witness ==
    /\ call.op = "setup_veth"
    /\ call.ns = ContNs
    /\ call.fault = "host_link_set_up"
    /\ ~call.ok
    /\ \E i \in 1 .. Len(call.log) : call.log[i].op = "link_add"
    /\ call.ns_after = ContNs

\* C12: ip::setup_veth, make_veth and make_veth_pair, entered while the
\* current namespace is not the container namespace, fail with the
\* consistency error and create no link.
C12_WrongNamespaceRejected ==
    call.op \in {"setup_veth", "make_veth", "make_veth_pair"} /\ call.ns # ContNs =>
        /\ ~call.ok
        /\ call.err = "netns not match"
        /\ call.log = << >>
        /\ kernel.links = call.pre.links

C12_Witness ==
    /\ call.op = "make_veth_pair"
    /\ call.ns = HostNs
    /\ call.fault = "none"
    /\ ~call.ok
    /\ \A l \in call.pre.links : l.name \notin {"eth0", call.rand[1]}

\* C13: when, after the veth pair has been created, the container-side device
\* cannot be resolved by name, make_veth_pair deletes the created device
\* before it returns the error: the failed attempt leaves no veth pair behind.
C13_DeletesOnResolveFailure ==
    /\ call.op = "make_veth_pair"
    /\ ~call.ok
    /\ \E i \in 1 .. Len(call.log) : call.log[i].op = "link_add"
    => /\ \E i \in 1 .. Len(call.log) : call.log[i].op = "link_del"
       /\ kernel.links = call.pre.links

(***************************************************************************)
(* Delegation to the IPAM plugin (src/invoke/src/lib.rs)                   *)
(***************************************************************************)
Printed(text) == [text |-> text, result |-> None]

\* exec_plugin_with_result: child is what the child process does; `printed` is
\* what the println! calls write to the standard output of this process
exec_plugin_with_result(child) ==
    LET head == <<Printed("plugin_path"), Printed("env"), Printed("stdin_data")>>
    IN  IF ~child.spawned
        THEN [ok |-> FALSE, err |-> "spawn failed", printed |-> head, buffer |-> None]
        ELSE IF child.exit \notin {"0", "signal"}
        THEN [ok |-> FALSE, err |-> "plugin exited with non-zero exit code",
              printed |-> head \o <<Printed("exit status"), Printed("child output")>>,
              buffer |-> None]
        ELSE [ok |-> TRUE, err |-> "", printed |-> head, buffer |-> Some(child.out)]

\* delegate_add: delegate_common, exec_plugin_with_result and serde_json
delegate_add(child) ==
    IF ~child.found
    THEN [ok |-> FALSE, err |-> "plugin not found in CNI_PATH", printed |-> << >>,
          result |-> None]
    ELSE LET res == exec_plugin_with_result(child)
         IN  IF ~res.ok
             THEN [ok |-> FALSE, err |-> res.err, printed |-> res.printed,
                   result |-> None]
             ELSE IF ~res.buffer[1].json
             THEN [ok |-> FALSE, err |-> "invalid JSON", printed |-> res.printed,
                   result |-> None]
             ELSE [ok |-> TRUE, err |-> "", printed |-> res.printed,
                   result |-> Some(res.buffer[1])]

(***************************************************************************)
(* The inputs of an invocation of the bridge plugin.                       *)
(***************************************************************************)
\* CNI_COMMAND
Cmds == {"ADD", "DEL", "CHECK", "VERSION", ""}

\* the network configurations on standard input: the optional flags, absent
\* ones read as false, for the network mynet on the default bridge cni0
NetConfs ==
    {[NoConf EXCEPT !.name = "mynet", !.br_name = "cni0", !.is_gw = g,
                    !.is_default_gw = d, !.force_address = f, !.ip_masq = m,
                    !.promisc_mode = p]
     : g \in BOOLEAN, d \in BOOLEAN, f \in BOOLEAN, m \in BOOLEAN, p \in BOOLEAN}

Assignment(address, gateway) ==
    [address |-> address, gateway |-> gateway, interface |-> None]

\* what the delegate prints: no JSON, or a result
Output(ips, routes) ==
    [json |-> TRUE, cni_version |-> Some("1.0.0"), interfaces |-> None, ips |-> ips,
     routes |-> routes, dns |-> None]

Garbage == [Output(None, None) EXCEPT !.json = FALSE]

A4 == Net(FAMILY_V4, 1, AddrBits - 1)

B4 == Net(FAMILY_V4, LastIp - 1, AddrBits - 1)

A6 == Net(FAMILY_V6, 1, AddrBits - 1)

DefaultRoute(gw) == [dst |-> Net(FAMILY_V4, 0, 0), gw |-> gw]

\* an address in the middle of its subnet, like 10.10.0.5/24
MID4 == Net(FAMILY_V4, 2, AddrBits - 2)

DelegateResults ==
    { Output(None, None),
      Output(Some(<<Assignment(MID4, None)>>), None),
      Output(Some(<<Assignment(A4, None)>>), None),
      Output(Some(<<Assignment(A4, Some(IpAddr(FAMILY_V4, 0)))>>),
             Some(<<DefaultRoute(Some(IpAddr(FAMILY_V4, 0)))>>)),
      Output(Some(<<Assignment(Net(FAMILY_V4, LastIp, AddrBits - 1), None)>>), None),
      Output(Some(<<Assignment(A6, None)>>), None),
      Output(Some(<<Assignment(A4, Some(IpAddr(FAMILY_V4, 0))),
                    Assignment(A6, Some(IpAddr(FAMILY_V6, 0)))>>), None),
      Output(Some(<<Assignment(A4, Some(IpAddr(FAMILY_V4, 0))),
                    Assignment(B4, Some(IpAddr(FAMILY_V4, LastIp)))>>), None) }

\* what the delegate's process can do
Children ==
    {[found |-> FALSE, spawned |-> FALSE, exit |-> "", out |-> Garbage],
     [found |-> TRUE, spawned |-> FALSE, exit |-> "", out |-> Garbage],
     [found |-> TRUE, spawned |-> TRUE, exit |-> "1", out |-> Garbage],
     [found |-> TRUE, spawned |-> TRUE, exit |-> "0", out |-> Garbage],
     [found |-> TRUE, spawned |-> TRUE, exit |-> "signal", out |-> Garbage]}
    \cup {[found |-> TRUE, spawned |-> TRUE, exit |-> e, out |-> o]
          : e \in {"0", "signal"}, o \in DelegateResults}

\* the hosts an invocation starts on: an empty one, one with the bridge, one
\* whose bridge has the gateway address of an earlier ADD, one where cni0 is no
\* bridge, one where a veth name is taken
PreKernels ==
    {EmptyKernel, BridgeKernel, DummyKernel, TakenKernel,
     Fresh(ensure_addr(BridgeKernel, Br0, Net(FAMILY_V4, 0, AddrBits - 1), FALSE,
                       "none").k)}

(***************************************************************************)
(* main, plugin_main and cmd_add (src/bridge/src/main.rs,                  *)
(* src/cni-core/src/skel.rs)                                               *)
(***************************************************************************)
\* the beginning of the loop over gateway_infos, at its i-th element
gateway_loop(i, l) ==
    IF l.net_conf.is_gw /\ i <= Len(l.gateway_infos)
    THEN [pc |-> "ensure_addr", i |-> i]
    ELSE IF l.net_conf.ip_masq /\ 1 <= Len(l.bridge_result.ips[1])
    THEN [pc |-> "setup_ip_masq", i |-> 1]
    ELSE [pc |-> "emit", i |-> 0]

\* the beginning of the loop over bridge_result.ips, at its i-th element
masq_loop(i, l) ==
    IF l.net_conf.ip_masq /\ i <= Len(l.bridge_result.ips[1])
    THEN [pc |-> "setup_ip_masq", i |-> i]
    ELSE [pc |-> "emit", i |-> 0]

\* the order of the specification: the container interface is configured last
cmd_add_next_ConfigLast(step, l) ==
    CASE step = "parse" -> [pc |-> "setup_bridge", i |-> 0]
      [] step = "setup_bridge" -> [pc |-> "netns", i |-> 0]
      [] step = "netns" -> [pc |-> "setup_veth", i |-> 0]
      [] step = "setup_veth" -> [pc |-> "delegate_add", i |-> 0]
      [] step = "delegate_add" -> [pc |-> "calc_gateway", i |-> 0]
      [] step = "calc_gateway" ->
            IF l.net_conf.is_gw /\ 1 <= Len(l.gateway_infos)
            THEN [pc |-> "ensure_addr", i |-> 1]
            ELSE IF l.net_conf.ip_masq /\ 1 <= Len(l.bridge_result.ips[1])
            THEN [pc |-> "setup_ip_masq", i |-> 1]
            ELSE [pc |-> "config_interface", i |-> 0]
      [] step = "ensure_addr" ->
            IF l.gateway_infos[l.i].gws # << >>
            THEN [pc |-> "enable_ip_forward", i |-> l.i]
            ELSE IF l.i + 1 <= Len(l.gateway_infos)
            THEN [pc |-> "ensure_addr", i |-> l.i + 1]
            ELSE IF l.net_conf.ip_masq /\ 1 <= Len(l.bridge_result.ips[1])
            THEN [pc |-> "setup_ip_masq", i |-> 1]
            ELSE [pc |-> "config_interface", i |-> 0]
      [] step = "enable_ip_forward" ->
            IF l.i + 1 <= Len(l.gateway_infos)
            THEN [pc |-> "ensure_addr", i |-> l.i + 1]
            ELSE IF l.net_conf.ip_masq /\ 1 <= Len(l.bridge_result.ips[1])
            THEN [pc |-> "setup_ip_masq", i |-> 1]
            ELSE [pc |-> "config_interface", i |-> 0]
      [] step = "setup_ip_masq" ->
            IF l.i + 1 <= Len(l.bridge_result.ips[1])
            THEN [pc |-> "setup_ip_masq", i |-> l.i + 1]
            ELSE [pc |-> "config_interface", i |-> 0]
      [] step = "config_interface" -> [pc |-> "emit", i |-> 0]
      [] step = "emit" -> [pc |-> "returned", i |-> 0]

\* an order that invokes the delegate before the veth pair is provisioned
cmd_add_next_DelegateFirst(step, l) ==
    CASE step = "parse" -> [pc |-> "setup_bridge", i |-> 0]
      [] step = "setup_bridge" -> [pc |-> "delegate_add", i |-> 0]
      [] step = "delegate_add" -> [pc |-> "netns", i |-> 0]
      [] step = "netns" -> [pc |-> "setup_veth", i |-> 0]
      [] step = "setup_veth" -> [pc |-> "calc_gateway", i |-> 0]
      [] step = "calc_gateway" -> [pc |-> "config_interface", i |-> 0]
      [] step = "config_interface" -> gateway_loop(1, l)
      [] step = "ensure_addr" ->
            IF l.gateway_infos[l.i].gws # << >>
            THEN [pc |-> "enable_ip_forward", i |-> l.i]
            ELSE gateway_loop(l.i + 1, l)
      [] step = "enable_ip_forward" -> gateway_loop(l.i + 1, l)
      [] step = "setup_ip_masq" -> masq_loop(l.i + 1, l)
      [] step = "emit" -> [pc |-> "returned", i |-> 0]

\* cmd_add's sequence of statements: the statement that follows `step` once
\* it has succeeded, with the loop index it starts at; l holds the locals
\* after `step`
cmd_add_next(step, l) ==
    CASE step = "parse" -> [pc |-> "setup_bridge", i |-> 0]
      [] step = "setup_bridge" -> [pc |-> "netns", i |-> 0]
      [] step = "netns" -> [pc |-> "setup_veth", i |-> 0]
      [] step = "setup_veth" -> [pc |-> "delegate_add", i |-> 0]
      [] step = "delegate_add" -> [pc |-> "calc_gateway", i |-> 0]
      [] step = "calc_gateway" -> [pc |-> "config_interface", i |-> 0]
      [] step = "config_interface" -> gateway_loop(1, l)
      [] step = "ensure_addr" ->
            IF l.gateway_infos[l.i].gws # << >>
            THEN [pc |-> "enable_ip_forward", i |-> l.i]
            ELSE gateway_loop(l.i + 1, l)
      [] step = "enable_ip_forward" -> gateway_loop(l.i + 1, l)
      [] step = "setup_ip_masq" -> masq_loop(l.i + 1, l)
      [] step = "emit" -> [pc |-> "returned", i |-> 0]

\* a `?` that drops the error and goes on
Try_IgnoreError(status, next) ==
    CASE status = "ok" -> next
      [] status = "err" -> next
      [] status = "panic" -> "exited"

\* the `?` after a step of cmd_add and of plugin_main: go on after Ok, return
\* the error to main after Err; a panic ends the process
Try(status, next) ==
    CASE status = "ok" -> next
      [] status = "err" -> "returned"
      [] status = "panic" -> "exited"

\* the exit code of a process that panicked
PANIC_EXIT == 101

\* a cmd_add that leaves is_gw as it was read
normalize_Off(net_conf) == net_conf

\* if net_conf.is_default_gw { net_conf.is_gw = Some(true) }
normalize(net_conf) ==
    IF net_conf.is_default_gw THEN [net_conf EXCEPT !.is_gw = TRUE] ELSE net_conf

\* a cmd_add that deletes the veth pairs when a step fails
Step_DeleteVethOnFailure(step, status, err, k, l) ==
    LET nx == cmd_add_next(step, l)
        to == Try(status, nx.pc)
    IN  /\ kernel' = IF status = "ok" THEN k
                     ELSE [k EXCEPT !.links = {x \in @ : x.kind # "veth"}]
        /\ trace' = Append(trace, [step |-> step, ok |-> status = "ok"])
        /\ pc' = to
        /\ local' = [l EXCEPT !.i = IF status = "ok" THEN nx.i ELSE l.i,
                              !.res = CASE to = "returned" /\ status = "ok" -> "Ok"
                                        [] to = "returned" -> "Err"
                                        [] to = "exited" -> "panic"
                                        [] OTHER -> l.res,
                              !.err = IF status = "ok" THEN l.err ELSE err]
        /\ exit' = IF to = "exited" THEN PANIC_EXIT ELSE exit
        /\ UNCHANGED call

\* the effect of one step of cmd_add: `status` is how it ended, k the OS state
\* and l the locals it leaves
Step(step, status, err, k, l) ==
    LET nx == cmd_add_next(step, l)
        to == Try(status, nx.pc)
    IN  /\ kernel' = k
        /\ trace' = Append(trace, [step |-> step, ok |-> status = "ok"])
        /\ pc' = to
        /\ local' = [l EXCEPT !.i = IF status = "ok" THEN nx.i ELSE l.i,
                              !.res = CASE to = "returned" /\ status = "ok" -> "Ok"
                                        [] to = "returned" -> "Err"
                                        [] to = "exited" -> "panic"
                                        [] OTHER -> l.res,
                              !.err = IF status = "ok" THEN l.err ELSE err]
        /\ exit' = IF to = "exited" THEN PANIC_EXIT ELSE exit
        /\ UNCHANGED call

Status(r) == IF r.ok THEN "ok" ELSE "err"

(***************************************************************************)
(* Harness for calc_gateway: it is applied to a delegate result, and again *)
(* to its own output.  The configurations are those cmd_add can pass:      *)
(* is_default_gw implies is_gw.                                            *)
(***************************************************************************)
\* number of times calc_gateway is applied in one behaviour of SpecGw
MaxGwCalls == 2

\* the assignments of the delegate results of the harness
GwAssignments ==
    {[address |-> a, gateway |-> g, interface |-> None] :
        a \in {Net(FAMILY_V4, 1, AddrBits - 1), Net(FAMILY_V4, LastIp - 1, AddrBits),
               Net(FAMILY_V6, 1, AddrBits - 1)},
        g \in {None, Some(IpAddr(FAMILY_V4, 0)), Some(IpAddr(FAMILY_V6, 0))}}

\* their routes: default routes of both families with and without gateway,
\* and a route to a subnet
GwRoutes ==
    {[dst |-> Net(FAMILY_V4, 0, 0), gw |-> Some(IpAddr(FAMILY_V4, 0))],
     [dst |-> Net(FAMILY_V4, 0, 0), gw |-> None],
     [dst |-> Net(FAMILY_V6, 0, 0), gw |-> Some(IpAddr(FAMILY_V6, 0))],
     [dst |-> Net(FAMILY_V4, LastIp - 1, AddrBits - 1), gw |-> Some(IpAddr(FAMILY_V4, 0))]}

GwIpLists ==
    {None, Some(<< >>)} \cup {Some(<<a>>) : a \in GwAssignments}
    \cup {Some(<<a, b>>) : a \in GwAssignments, b \in GwAssignments}

GwRouteLists == {None, Some(<< >>)} \cup {Some(<<r>>) : r \in GwRoutes}

GwConfs == {c \in NetConfs : ~c.force_address /\ ~c.ip_masq /\ ~c.promisc_mode}

InitGw ==
    /\ ProcOff
    /\ kernel = EmptyKernel
    /\ call = NoCall

\* calc_gateway(&mut ipam_result, &net_conf) on a delegate result
CallCalcGateway ==
    /\ call.op = "none"
    /\ \E ips \in GwIpLists, routes \in GwRouteLists, conf \in GwConfs :
        \E r \in {calc_gateway([ips |-> ips, routes |-> routes], normalize(conf))} :
            call' = [op |-> "calc_gateway", n |-> 1, conf |-> normalize(conf),
                     in_ips |-> ips, in_routes |-> routes, status |-> r.status,
                     err |-> r.err, ips |-> r.ips, routes |-> r.routes, gws |-> r.gws]
    /\ UNCHANGED <<kernel, procvars>>

\* calc_gateway on the result of an earlier application
CallCalcGatewayAgain ==
    /\ call.op = "calc_gateway"
    /\ call.status = "ok"
    /\ call.n < MaxGwCalls
    /\ \E r \in {calc_gateway([ips |-> call.ips, routes |-> call.routes], call.conf)} :
            call' = [call EXCEPT !.n = @ + 1, !.in_ips = call.ips,
                                 !.in_routes = call.routes, !.status = r.status,
                                 !.err = r.err, !.ips = r.ips, !.routes = r.routes,
                                 !.gws = r.gws]
    /\ UNCHANGED <<kernel, procvars>>

NextGw == CallCalcGateway \/ CallCalcGatewayAgain

SpecGw == InitGw /\ [][NextGw]_vars

\* the routes of an Option<Vec<Route>>
RoutesOf(routes) == IF routes = None THEN << >> ELSE routes[1]

GwCall == call.op = "calc_gateway" /\ call.status = "ok"

\* C14: calc_gateway with isDefaultGateway, applied to a result whose routes
\* contain a default route (unspecified destination, with a gateway), appends
\* no route; applied to its own output it leaves the routes unchanged, so that
\* no second default route is synthesized.
C14_DefaultRouteOnce ==
    GwCall /\ call.conf.is_default_gw =>
        /\ default_route_found(call.in_routes) => call.routes = call.in_routes
        /\ call.n > 1 => call.routes = call.in_routes
        /\ Len(RoutesOf(call.routes)) <= Len(RoutesOf(call.in_routes)) + 1

\* the second application, after the first one synthesized the default route
C14_Witness ==
    /\ GwCall
    /\ call.conf.is_default_gw
    /\ call.n = 2
    /\ call.in_ips # None /\ Len(call.in_ips[1]) = 2
    /\ \E i \in 1 .. Len(RoutesOf(call.routes)) :
          call.routes[1][i] = [dst |-> Net(FAMILY_V4, 0, 0), gw |-> call.ips[1][1].gateway]
    /\ Len(RoutesOf(call.routes)) = 1

\* the address families of the assignments calc_gateway was applied to
GwFamilies == {call.in_ips[1][i].address.fam : i \in 1 .. Len(call.in_ips[1])}

\* routes has a default route of family f that carries a gateway
FamilyDefault(routes, f) ==
    \E j \in 1 .. Len(RoutesOf(routes)) :
        /\ routes[1][j].dst = Net(f, 0, 0)
        /\ routes[1][j].gw # None

\* C15: with isDefaultGateway calc_gateway decides per address family: for an
\* assignment of a family without a default route of that family carrying a
\* gateway, it appends a default route of that family through the
\* assignment's gateway; a default route of the other family does not count
\* as found, and every route it appends has the family of an assignment.
C15_PerFamilyDefaultRoute ==
    GwCall /\ call.n = 1 /\ call.conf.is_default_gw =>
        /\ \A f \in GwFamilies :
              ~FamilyDefault(call.in_routes, f) =>
                  \E j \in 1 .. Len(RoutesOf(call.routes)) :
                      /\ call.routes[1][j].dst = Net(f, 0, 0)
                      /\ \E i \in 1 .. Len(call.ips[1]) :
                            /\ call.ips[1][i].address.fam = f
                            /\ call.routes[1][j].gw = call.ips[1][i].gateway
        /\ \A j \in Len(RoutesOf(call.in_routes)) + 1 .. Len(RoutesOf(call.routes)) :
              call.routes[1][j].dst.fam \in GwFamilies

\* C16: with isGateway calc_gateway returns exactly one GatewayInfo for each
\* address family among the assignments, with the family's tag and all the
\* gateway networks of the family: two assignments of one family yield one
\* GatewayInfo.
C16_OneGatewayInfoPerFamily ==
    GwCall /\ call.n = 1 /\ call.conf.is_gw =>
        /\ Len(call.gws) = Cardinality(GwFamilies)
        /\ \A f \in GwFamilies :
              \E g \in 1 .. Len(call.gws) :
                  /\ call.gws[g].family = f
                  /\ {call.gws[g].gws[x] : x \in 1 .. Len(call.gws[g].gws)}
                        = {Net(f, call.ips[1][i].gateway[1].ip,
                               call.ips[1][i].address.prefix) :
                             i \in {n \in 1 .. Len(call.ips[1]) :
                                      call.ips[1][n].address.fam = f}}

RECURSIVE ensure_addrs(_, _, _, _, _, _)
\* for gw in &gw_info.gws { ensure_addr(&br_link, gw, force_address)?; }
ensure_addrs(k, br, gws, j, force_address, fault) ==
    IF j > Len(gws) THEN Ok(k)
    ELSE LET r == ensure_addr(k, br, gws[j], force_address, fault)
         IN  IF ~r.ok THEN [ok |-> FALSE, err |-> r.err, k |-> r.k]
             ELSE ensure_addrs(r.k, br, gws, j + 1, force_address, fault)

\* CNI_NETNS, CNI_IFNAME, CNI_CONTAINERID
IF_NAME == "eth0"

CONTAINER_ID == "c1"

\* the faults of the environment the steps of cmd_add are run under
BridgeStepFaults == {"none", "link_add", "link_set_up"}

VethStepFaults == {"none", "link_add", "link_set_master"}

ConfigStepFaults == {"none", "addr_add", "route_add"}

AddrStepFaults == {"none", "addr_add"}

ForwardStepFaults == {"none", "sysctl_set"}

MasqStepFaults == {"none", "iptables_new", "append_jump"}

Init ==
    /\ pc = "main"
    /\ local = NoLocal
    /\ trace = << >>
    /\ stdout = << >>
    /\ exit = -1
    /\ kernel \in PreKernels
    /\ call = NoCall

\* main calls plugin_main: get_cmd_args_from_env and the match on the command
PluginMain ==
    /\ pc = "main"
    /\ \E cmd \in Cmds :
          /\ local' = [local EXCEPT !.cmd = cmd,
                                    !.res = CASE cmd = "" -> "Err"
                                              [] cmd = "VERSION" -> "panic"
                                              [] OTHER -> @,
                                    !.err = CASE cmd = "" -> "unknown command"
                                              [] cmd = "VERSION" -> "not yet implemented"
                                              [] OTHER -> @]
          /\ pc' = CASE cmd = "" -> "returned"
                     [] cmd = "VERSION" -> "exited"
                     [] OTHER -> "parse"
          /\ exit' = IF cmd = "VERSION" THEN PANIC_EXIT ELSE exit
    /\ UNCHANGED <<kernel, call, trace, stdout>>

\* cmd_add: read standard input, parse the NetConf, is_default_gw implies is_gw
ParseConfig ==
    /\ pc = "parse"
    /\ \/ Step("parse", "err", "invalid JSON", kernel, local)
       \/ \E conf \in NetConfs :
             Step("parse", "ok", "", kernel,
                  [local EXCEPT !.stdin_data = conf, !.net_conf = normalize(conf)])
    /\ UNCHANGED stdout

SetupBridge ==
    /\ pc = "setup_bridge"
    /\ \E fault \in BridgeStepFaults :
          \E r \in {setup_bridge(kernel, local.net_conf, fault)} :
              Step("setup_bridge", Status(r), r.err, r.k,
                   IF r.ok THEN [local EXCEPT !.br_link = r.link,
                                              !.br_interface = r.interface]
                   ELSE local)
    /\ UNCHANGED stdout

\* Netns::get_from_path(args.netns)?.ok_or(..)? and Netns::get()?
GetNetns ==
    /\ pc = "netns"
    /\ \E outcome \in {"ok", "netns not found", "ENOENT"} :
          Step("netns", IF outcome = "ok" THEN "ok" ELSE "err", outcome, kernel, local)
    /\ UNCHANGED stdout

\* a cmd_add that lists the container interface before the host interface
SetupVeth_SwappedInterfaces ==
    /\ pc = "setup_veth"
    /\ \E rand \in RandStreams, fault \in VethStepFaults :
          \E r \in {setup_veth(kernel, HostNs, ContNs, local.br_link, IF_NAME, rand, fault)} :
              Step("setup_veth", Status(r), r.err, r.k,
                   IF r.ok
                   THEN [local EXCEPT
                            !.bridge_result =
                                [cni_version |-> Some("1.0.0"),
                                 interfaces |-> Some(<<local.br_interface, r.container,
                                                       r.host>>),
                                 ips |-> None, routes |-> None, dns |-> None]]
                   ELSE local)
    /\ UNCHANGED stdout

\* setup_veth and the construction of bridge_result
SetupVeth ==
    /\ pc = "setup_veth"
    /\ \E rand \in RandStreams, fault \in VethStepFaults :
          \E r \in {setup_veth(kernel, HostNs, ContNs, local.br_link, IF_NAME, rand, fault)} :
              Step("setup_veth", Status(r), r.err, r.k,
                   IF r.ok
                   THEN [local EXCEPT
                            !.bridge_result =
                                [cni_version |-> Some("1.0.0"),
                                 interfaces |-> Some(<<local.br_interface, r.host,
                                                       r.container>>),
                                 ips |-> None, routes |-> None, dns |-> None]]
                   ELSE local)
    /\ UNCHANGED stdout

\* invoke::delegate_add and the copy of ips, routes and dns
DelegateAdd ==
    /\ pc = "delegate_add"
    /\ \E child \in Children :
          \E r \in {delegate_add(child)} :
              /\ Step("delegate_add", Status(r), r.err, kernel,
                      IF r.ok
                      THEN [local EXCEPT !.bridge_result.ips = r.result[1].ips,
                                         !.bridge_result.routes = r.result[1].routes,
                                         !.bridge_result.dns = r.result[1].dns,
                                         !.child = Some(child)]
                      ELSE [local EXCEPT !.child = Some(child)])
              /\ stdout' = stdout \o r.printed

CalcGateway ==
    /\ pc = "calc_gateway"
    /\ \E r \in {calc_gateway(local.bridge_result, local.net_conf)} :
           Step("calc_gateway", r.status, r.err, kernel,
                [local EXCEPT !.bridge_result.ips = r.ips,
                              !.bridge_result.routes = r.routes,
                              !.gateway_infos = IF r.status = "ok" THEN r.gws ELSE @])
    /\ UNCHANGED stdout

\* exec_netns!(current_ns, &netns, result, || config_interface(..)); result?
ConfigInterface ==
    /\ pc = "config_interface"
    /\ \E fault \in ConfigStepFaults :
          \E e \in {setns(kernel, ContNs, fault = "setns_netns")} :
          \E r \in {IF ~e.ok THEN e
                    ELSE config_interface(e.k, IF_NAME, local.bridge_result, fault)} :
              Step("config_interface", Status(r), r.err, setns(r.k, HostNs, FALSE).k,
                   local)
    /\ UNCHANGED stdout

\* the inner loop over gw_info.gws of the local.i-th GatewayInfo
EnsureAddrs ==
    /\ pc = "ensure_addr"
    /\ \E fault \in AddrStepFaults :
          \E r \in {ensure_addrs(kernel, local.br_link.index,
                                local.gateway_infos[local.i].gws, 1,
                                local.net_conf.force_address, fault)} :
              Step("ensure_addr", Status(r), r.err, r.k, local)
    /\ UNCHANGED stdout

EnableForward ==
    /\ pc = "enable_ip_forward"
    /\ \E fault \in ForwardStepFaults :
          \E r \in {enable_ip_forward(kernel, local.gateway_infos[local.i].family, fault)} :
              Step("enable_ip_forward", Status(r), r.err, r.k, local)
    /\ UNCHANGED stdout

\* ip::setup_ip_masq for the local.i-th assignment
SetupMasq ==
    /\ pc = "setup_ip_masq"
    /\ \E fault \in MasqStepFaults :
          \E chain_name \in {format_chain_name(local.net_conf.name, CONTAINER_ID)} :
          \E r \in {setup_ip_masq(kernel, local.bridge_result.ips[1][local.i].address,
                                  chain_name, fault)} :
              Step("setup_ip_masq", r.status, r.err, r.k, local)
    /\ UNCHANGED stdout

\* let _ = stdout().write_fmt(..); Ok(())
Emit ==
    /\ pc = "emit"
    /\ \E written \in BOOLEAN :
          /\ stdout' = IF written
                       THEN Append(stdout, [text |-> "result",
                                            result |-> Some(local.bridge_result)])
                       ELSE stdout
    /\ Step("emit", "ok", "", kernel, local)

\* plugin_main returns to main, main logs res and returns
MainReturn ==
    /\ pc = "returned"
    /\ pc' = "exited"
    /\ exit' = 0
    /\ UNCHANGED <<kernel, call, local, trace, stdout>>

Next ==
    \/ PluginMain
    \/ ParseConfig
    \/ SetupBridge
    \/ GetNetns
    \/ SetupVeth
    \/ DelegateAdd
    \/ CalcGateway
    \/ ConfigInterface
    \/ EnsureAddrs
    \/ EnableForward
    \/ SetupMasq
    \/ Emit
    \/ MainReturn

Spec == Init /\ [][Next]_vars

(***************************************************************************)
(* Properties of an invocation.  trace is the sequence of the steps        *)
(* cmd_add has run, each with whether it succeeded; kernel.log is the      *)
(* sequence of the kernel calls that changed the host.                     *)
(***************************************************************************)
\* the positions of the trace at which `step` ran
Steps(step) == {i \in 1 .. Len(trace) : trace[i].step = step}

\* the positions at which one of the gateway or masquerade steps ran
HostSteps == Steps("ensure_addr") \cup Steps("enable_ip_forward") \cup Steps("setup_ip_masq")

\* `step` ran, successfully, before position j
RanBefore(step, j) == \E i \in Steps(step) : i < j /\ trace[i].ok

\* the result objects on standard output
Results == {i \in 1 .. Len(stdout) : stdout[i].result # None}

Failed == \E i \in 1 .. Len(trace) : ~trace[i].ok

C7_BridgeVethDelegateOrder ==
    /\ \A v \in Steps("setup_veth") : RanBefore("setup_bridge", v)
    /\ \A d \in Steps("delegate_add") :
          /\ RanBefore("setup_veth", d)
          /\ RanBefore("setup_bridge", d)
          /\ \A i \in Steps("setup_bridge") \cup Steps("setup_veth") : trace[i].ok
    /\ \A g \in Steps("calc_gateway") : RanBefore("delegate_add", g)

C7_Witness ==
    /\ pc = "exited"
    /\ Steps("setup_bridge") # {}
    /\ Steps("setup_veth") # {}
    /\ Steps("delegate_add") # {}
    /\ Steps("calc_gateway") # {}

\* C8: the host side of the veth pair has been given the bridge as its master
\* before any address is added to the bridge or to the container's interface.
C8_AttachedBeforeAddresses ==
    \A j \in 1 .. Len(kernel.log) :
        kernel.log[j].op = "addr_add" =>
            /\ \E i \in 1 .. j - 1 : kernel.log[i].op = "link_set_master"
            /\ \E l \in kernel.links :
                  /\ l.kind = "veth" /\ l.ns = HostNs
                  /\ l.master = local.br_link.index
                  /\ local.br_link.index # 0

C8_Witness ==
    /\ pc = "exited"
    /\ \E j \in 1 .. Len(kernel.log) :
          kernel.log[j].op = "addr_add" /\ kernel.log[j].link = local.br_link.index
    /\ \E j \in 1 .. Len(kernel.log) :
          kernel.log[j].op = "addr_add" /\ kernel.log[j].link # local.br_link.index

C22_DelegateOutputOnlyOnCleanExit ==
    \A i \in Steps("delegate_add") :
        \A c \in {local.child[1]} :
            ~(c.found /\ c.spawned /\ c.exit = "0" /\ c.out.json) =>
                /\ ~trace[i].ok
                /\ Steps("config_interface") = {}
                /\ Steps("ensure_addr") = {}
                /\ Results = {}

\* the devices that hold the configured bridge name
BrNamed == NamedLinks(kernel, local.net_conf.br_name)

\* C24: when a device with the requested bridge name exists and is no bridge,
\* ensure_bridge fails, with the type-mismatch error unless link_add itself
\* failed, that device is never brought up, and ADD creates no veth pair.
C24_NotABridge ==
    (\E l \in BrNamed : l.kind # "bridge") /\ Steps("setup_bridge") # {} =>
        /\ \A i \in Steps("setup_bridge") : ~trace[i].ok
        /\ local.err \in {"link is not a bridge", "link add failed"}
        /\ \A l \in BrNamed : ~l.up
        /\ Steps("setup_veth") = {}
        /\ \A l \in kernel.links : l.kind # "veth"

\* ADD with promiscMode has failed with the type-mismatch error on such a host
C24_Witness ==
    /\ \E l \in BrNamed : l.kind # "bridge"
    /\ local.net_conf.promisc_mode
    /\ pc = "exited"
    /\ local.err = "link is not a bridge"

\* the addresses of the result
ResultIps == IF local.bridge_result.ips = None THEN << >> ELSE local.bridge_result.ips[1]

\* C25: when isDefaultGateway is true, isGateway is true for the whole
\* invocation, from before the bridge is ensured or any kernel resource is
\* touched: every address gets a gateway and a gateway network, and an ADD
\* that emits its result has reconciled the bridge addresses and enabled
\* forwarding.
C25_DefaultGatewayImpliesGateway ==
    (\E i \in Steps("parse") : trace[i].ok) /\ local.stdin_data.is_default_gw =>
        /\ local.net_conf = [local.stdin_data EXCEPT !.is_gw = TRUE]
        /\ Steps("setup_bridge") = {} => kernel \in PreKernels
        /\ (\E i \in Steps("calc_gateway") : trace[i].ok) =>
              /\ Len(local.gateway_infos) = Len(ResultIps)
              /\ \A j \in 1 .. Len(ResultIps) :
                    /\ ResultIps[j].gateway # None
                    /\ local.gateway_infos[j].gws # << >>
        /\ Results # {} /\ ResultIps # << >> =>
              /\ Cardinality(Steps("ensure_addr")) = Len(ResultIps)
              /\ Cardinality(Steps("enable_ip_forward")) = Len(ResultIps)

\* an ADD whose configuration has isDefaultGateway without isGateway has
\* emitted its result
C25_Witness ==
    /\ local.stdin_data.is_default_gw /\ ~local.stdin_data.is_gw
    /\ Results # {}
    /\ Steps("enable_ip_forward") # {}

\* the sysctl that enables forwarding for a family
ForwardKey(fam) ==
    IF fam = FAMILY_V4 THEN "net/ipv4/ip_forward" ELSE "net/ipv6/conf/all/forwarding"

\* the bridge holds the address
OnBridge(net) ==
    \E a \in 1 .. Len(kernel.addrs) :
        kernel.addrs[a].link = local.br_link.index /\ kernel.addrs[a].net = net

C27_MasqueradeEveryAddress ==
    (\E i \in Steps("parse") : trace[i].ok) =>
        /\ ~local.net_conf.ip_masq =>
              /\ kernel.nat = EmptyKernel.nat
              /\ Steps("setup_ip_masq") = {}
        /\ local.net_conf.ip_masq /\ Results # {} =>
              Cardinality(Steps("setup_ip_masq")) = Len(ResultIps)
        /\ \A i \in Steps("setup_ip_masq") :
              ~trace[i].ok =>
                  local.err \in {"iptables failed",
                                 "called Result::unwrap() on an Err value"}

\* C28: a failure in a later step of ADD rolls nothing back: once setup_bridge
\* has succeeded the bridge exists, and once setup_veth has succeeded the veth
\* pair exists, the host end attached to the bridge and the container end in
\* the container namespace, also after the invocation has failed.
C28_NoRollback ==
    /\ (\E i \in Steps("setup_bridge") : trace[i].ok) =>
          \E b \in LinksIn(kernel, HostNs) :
              /\ b.index = local.br_link.index
              /\ b.name = local.net_conf.br_name /\ b.kind = "bridge"
    /\ (\E i \in Steps("setup_veth") : trace[i].ok) =>
          \E h \in LinksIn(kernel, HostNs), c \in LinksIn(kernel, ContNs) :
              /\ h.name = local.bridge_result.interfaces[1][2].name
              /\ h.kind = "veth" /\ h.master = local.br_link.index
              /\ c.name = IF_NAME /\ c.kind = "veth"
              /\ h.peer = c.index /\ c.peer = h.index

\* ADD has failed on a gateway-address conflict after it created the bridge
\* and the veth pair
C28_Witness ==
    /\ pc = "exited"
    /\ local.err = "already has an IP address different"
    /\ \E i \in Steps("setup_veth") : trace[i].ok
    /\ \E j \in 1 .. Len(kernel.log) :
          kernel.log[j].op = "link_add" /\ kernel.log[j].link = local.br_link.index

\* the positions in the NAT table of the rules with the jump target in the
\* chain of this invocation
ChainRules(jump) ==
    {i \in 1 .. Len(kernel.nat.rules) :
        /\ kernel.nat.rules[i].chain = format_chain_name(local.net_conf.name,
                                                         CONTAINER_ID)
        /\ kernel.nat.rules[i].rule.jump = jump}

\* C33: after masquerade setup has run for all addresses of an invocation,
\* every ACCEPT rule for an assigned subnet stands before the MASQUERADE rule
\* of its family in the chain, also for two addresses of one family.
C33_AcceptBeforeMasquerade ==
    local.net_conf.ip_masq
    /\ Cardinality(Steps("setup_ip_masq")) = Len(ResultIps) =>
        \A a \in ChainRules("ACCEPT"), m \in ChainRules("MASQUERADE") :
            kernel.nat.rules[a].fam = kernel.nat.rules[m].fam => a < m

\* the delegate returned an assignment without gateway from which next_ip
\* derives none: the last IPv4 address, or an IPv6 address
Underivable ==
    /\ local.child # << >>
    /\ local.child[1].out.ips # None
    /\ \E j \in 1 .. Len(local.child[1].out.ips[1]) :
          \E a \in {local.child[1].out.ips[1][j]} :
              /\ a.gateway = None
              /\ a.address.fam = FAMILY_V6 \/ a.address.ip = LastIp

\* C35: when isGateway is in effect and no gateway can be derived for an
\* assignment that carries none, ADD ends with an ordinary reported error: the
\* calc_gateway step fails, and cmd_add returns the error instead of
\* panicking.
C35_UnderivableGatewayIsAnError ==
    local.net_conf.is_gw /\ Underivable =>
        \A i \in Steps("calc_gateway") :
            /\ ~trace[i].ok
            /\ local.res = "Err"
            /\ exit # PANIC_EXIT

\* C10: every failed invocation ends the process with a non-zero exit code,
\* and exit code 0 occurs only for invocations that emitted the full result.
C10_FailureExitsNonZero ==
    pc = "exited" =>
        /\ local.res # "Ok" => exit # 0
        /\ exit = 0 => Results # {}

\* the first address of a subnet: its network address plus one
FirstIp(net) ==
    (net.ip \div 2 ^ (AddrBits - net.prefix)) * 2 ^ (AddrBits - net.prefix) + 1

\* C17: with isGateway, isDefaultGateway and ipMasq, and a delegate result of
\* the single address 10.10.0.5/24 without gateway (here MID4), a successful
\* ADD has derived the gateway 10.10.0.1 (the first address of the subnet),
\* added it with the prefix length to the bridge, appended the default route
\* through it, enabled IPv4 forwarding, created the masquerade chain and
\* added the POSTROUTING jump for the source address.
C17_SingleAddressScenario ==
    /\ pc = "exited" /\ local.res = "Ok"
    /\ local.net_conf.is_gw /\ local.net_conf.is_default_gw /\ local.net_conf.ip_masq
    /\ local.bridge_result.ips # None
    /\ Len(local.bridge_result.ips[1]) = 1
    /\ local.bridge_result.ips[1][1].address = MID4
    => LET gw    == IpAddr(FAMILY_V4, FirstIp(MID4))
           chain == format_chain_name(local.net_conf.name, CONTAINER_ID)
       IN  /\ local.bridge_result.ips[1][1].gateway = Some(gw)
           /\ \E i \in 1 .. Len(kernel.addrs) :
                 kernel.addrs[i] = [link |-> local.br_link.index,
                                    net |-> Net(FAMILY_V4, gw.ip, MID4.prefix)]
           /\ \E j \in 1 .. Len(RoutesOf(local.bridge_result.routes)) :
                 local.bridge_result.routes[1][j]
                     = [dst |-> Net(FAMILY_V4, 0, 0), gw |-> Some(gw)]
           /\ "net/ipv4/ip_forward" \in kernel.sysctl
           /\ chain \in list_chains(kernel, FAMILY_V4)
           /\ \E i \in 1 .. Len(kernel.nat.rules) :
                 kernel.nat.rules[i]
                     = [fam |-> FAMILY_V4, chain |-> POSTROUTING,
                        rule |-> Rule("-s", Net(FAMILY_V4, MID4.ip, AddrBits), "JUMP",
                                      chain)]

\* C18: the emitted result lists exactly three interfaces, the bridge first,
\* the host side of the veth pair second and the container side third, and
\* every address assignment of the result has the interface index 2, the
\* position of the container side.
C18_InterfaceIndexing ==
    \A r \in Results :
        LET res == stdout[r].result[1]
            ifs == res.interfaces[1]
        IN  /\ res.interfaces # None /\ Len(ifs) = 3
            /\ ifs[1].name = local.net_conf.br_name /\ ifs[1].sandbox = None
            /\ \E l \in LinksIn(kernel, HostNs) :
                  /\ l.kind = "bridge" /\ l.name = ifs[1].name
                  /\ \E h \in LinksIn(kernel, HostNs) :
                        /\ h.kind = "veth" /\ h.name = ifs[2].name
                        /\ h.master = l.index
                        /\ \E c \in LinksIn(kernel, ContNs) :
                              c.name = ifs[3].name /\ c.peer = h.index
            /\ ifs[2].sandbox = None
            /\ ifs[3].name = IF_NAME /\ ifs[3].sandbox = Some(ContNs)
            /\ res.ips # None
            /\ \A i \in 1 .. Len(res.ips[1]) : res.ips[1][i].interface = Some(2)

C18_Witness ==
    /\ pc = "exited"
    /\ \E r \in Results : Len(stdout[r].result[1].ips[1]) = 2

(***************************************************************************)
(* ipam-host-local: the disk-backed store (disk.rs).  Text is a sequence   *)
(* of one-character strings, an IPv4 address the sequence of its four      *)
(* octets, and the data directory a function from file names to file       *)
(* contents, kept in kernel.files.                                         *)
(***************************************************************************)
LINE_BREAK == <<"\r", "\n">>

LAST_IPFILE_PREFIX ==
    <<"l", "a", "s", "t", "_", "r", "e", "s", "e", "r", "v", "e", "d", "_",
      "i", "p", "_">>

DigitChars == <<"0", "1", "2", "3", "4", "5", "6", "7", "8", "9">>

Whitespace == {" ", "\t", "\r", "\n"}

\* u8's Display: the decimal digits of n, no leading zero
RECURSIVE decimal(_)
decimal(n) ==
    IF n < 10 THEN <<DigitChars[n + 1]>>
    ELSE decimal(n \div 10) \o <<DigitChars[(n % 10) + 1]>>

\* ip.to_string() of an Ipv4Addr: the four octets in decimal, dot-separated
to_string(ip) ==
    decimal(ip[1]) \o <<".">> \o decimal(ip[2]) \o <<".">> \o decimal(ip[3])
        \o <<".">> \o decimal(ip[4])

\* s.split('.'): the pieces of s between the dots
RECURSIVE split(_, _)
split(s, piece) ==
    IF s = << >> THEN <<piece>>
    ELSE IF Head(s) = "." THEN <<piece>> \o split(Tail(s), << >>)
    ELSE split(Tail(s), Append(piece, Head(s)))

\* the value of a string of decimal digits
RECURSIVE digits_value(_, _)
digits_value(s, acc) ==
    IF s = << >> THEN acc
    ELSE digits_value(Tail(s),
                      10 * acc + (CHOOSE d \in 0 .. 9 : DigitChars[d + 1] = Head(s)))

\* one octet of the textual form: one to three digits, no leading zero, at
\* most 255
parse_octet(s) ==
    IF /\ Len(s) \in 1 .. 3
       /\ \A i \in 1 .. Len(s) : \E d \in 1 .. 10 : DigitChars[d] = s[i]
       /\ (Len(s) > 1 => s[1] # "0")
       /\ digits_value(s, 0) <= 255
    THEN Some(digits_value(s, 0))
    ELSE None

\* str::parse::<IpAddr>() on text without a colon: exactly four octets
parse(s) ==
    Let(split(s, << >>), LAMBDA parts :
        IF Len(parts) = 4 /\ \A i \in 1 .. 4 : parse_octet(parts[i]) # None
        THEN Some([i \in 1 .. 4 |-> parse_octet(parts[i])[1]])
        ELSE None)

\* str::trim(): s without its leading and trailing whitespace
RECURSIVE trim(_)
trim(s) ==
    IF s = << >> THEN s
    ELSE IF Head(s) \in Whitespace THEN trim(Tail(s))
    ELSE IF s[Len(s)] \in Whitespace THEN trim(SubSeq(s, 1, Len(s) - 1))
    ELSE s

\* Path::exists()
exists(files, path) == path \in DOMAIN files

\* open(2) with O_CREAT alone: an existing file is opened
create_new_NoExcl(files, path) ==
    IF path \in DOMAIN files THEN [ok |-> TRUE, err |-> "", files |-> files]
    ELSE [ok |-> TRUE, err |-> "", files |-> files @@ (path :> << >>)]

\* open(2) with O_CREAT | O_EXCL (create_new): fails when the path exists,
\* and the existing file is not touched
create_new(files, path) ==
    IF path \in DOMAIN files
    THEN [ok |-> FALSE, err |-> "File exists (os error 17)", files |-> files]
    ELSE [ok |-> TRUE, err |-> "", files |-> files @@ (path :> << >>)]

\* open(2) with O_CREAT and without O_TRUNC: an existing file keeps its
\* contents
create(files, path) ==
    IF path \in DOMAIN files THEN files ELSE files @@ (path :> << >>)

\* write_all on a descriptor just opened: the bytes replace the contents
\* from offset 0, whatever lies beyond them stays
write_all(files, path, bytes) ==
    IF path \in DOMAIN files
    THEN [files EXCEPT ![path] = bytes \o SubSeq(@, Len(bytes) + 1, Len(@))]
    ELSE files

\* unlink(2)
remove_file(files, path) == [name \in DOMAIN files \ {path} |-> files[name]]

\* Store::last_reserved_ip
last_reserved_ip(files, range_id) ==
    IF LAST_IPFILE_PREFIX \o range_id \in DOMAIN files
    THEN parse(files[LAST_IPFILE_PREFIX \o range_id])
    ELSE None

(***************************************************************************)
(* The store under concurrent callers: each invocation runs reserve and    *)
(* release_by_id calls one after the other, and the file-system calls of   *)
(* different invocations interleave.  call.won and call.removed count, per *)
(* address, the reserve calls that returned Ok(true) and the unlinks of    *)
(* its file; call.owner is the content first written to the file that is   *)
(* there now.                                                              *)
(***************************************************************************)
\* store calls started in one behaviour
MaxStoreOps == 3

StoreAddrs == {<<10, 0, 0, 2>>, <<10, 0, 0, 10>>}

StoreIds == {<<"a">>, <<"b">>}

StoreIfnames == {<<"e", "t", "h", "0">>}

StoreRangeIds == {<<"0">>}

IdleProc ==
    [pc |-> "idle", op |-> "", id |-> << >>, ifname |-> << >>, ip |-> << >>,
     range_id |-> << >>, entries |-> {}, path |-> << >>, found |-> FALSE,
     res |-> "", err |-> ""]

InitStore ==
    /\ ProcOff
    /\ kernel = [files |-> << >>]
    /\ call = [op |-> "store", n |-> 0,
               won |-> [a \in StoreAddrs |-> 0],
               removed |-> [a \in StoreAddrs |-> 0],
               owner |-> [a \in StoreAddrs |-> None],
               proc |-> [p \in Invocations |-> IdleProc]]

\* invocation p returns res from its call
StoreReturn(c, p, res, err) ==
    [c EXCEPT !.proc[p].pc = "idle", !.proc[p].res = res, !.proc[p].err = err]

\* invocation p calls store.reserve(id, ifname, ip, range_id)
BeginReserve(p) ==
    /\ call.op = "store" /\ call.proc[p].pc = "idle" /\ call.n < MaxStoreOps
    /\ \E id \in StoreIds, ifname \in StoreIfnames, ip \in StoreAddrs,
          range_id \in StoreRangeIds :
        call' = [call EXCEPT !.n = @ + 1,
                             !.proc[p] = [IdleProc EXCEPT !.pc = "exists",
                                 !.op = "reserve", !.id = id, !.ifname = ifname,
                                 !.ip = ip, !.range_id = range_id,
                                 !.path = to_string(ip)]]
    /\ UNCHANGED <<kernel, procvars>>

\* if file_path.exists() { return Ok(false) }
ReserveExists(p) ==
    /\ call.op = "store" /\ call.proc[p].pc = "exists"
    /\ IF exists(kernel.files, call.proc[p].path)
       THEN call' = StoreReturn(call, p, "false", "")
       ELSE call' = [call EXCEPT !.proc[p].pc = "create_new"]
    /\ UNCHANGED <<kernel, procvars>>

\* OpenOptions::new()...create_new(true).open(file_path)?
ReserveCreateNew(p) ==
    /\ call.op = "store" /\ call.proc[p].pc = "create_new"
    /\ \E r \in {create_new(kernel.files, call.proc[p].path)} :
        IF r.ok
        THEN /\ kernel' = [kernel EXCEPT !.files = r.files]
             /\ call' = [call EXCEPT !.proc[p].pc = "write"]
        ELSE /\ call' = StoreReturn(call, p, "err", r.err)
             /\ UNCHANGED kernel
    /\ UNCHANGED procvars

\* f.write_all(content.as_bytes())?
ReserveWrite(p) ==
    /\ call.op = "store" /\ call.proc[p].pc = "write"
    /\ \E content \in {call.proc[p].id \o LINE_BREAK \o call.proc[p].ifname} :
        /\ kernel' = [kernel EXCEPT
                        !.files = write_all(@, call.proc[p].path, content)]
        /\ call' = [call EXCEPT
                        !.proc[p].pc = "open_last",
                        !.owner[call.proc[p].ip] =
                            IF @ = None THEN Some(content) ELSE @]
    /\ UNCHANGED procvars

\* OpenOptions::new()...create(true).open(last_ip_file_path)?
ReserveOpenLast(p) ==
    /\ call.op = "store" /\ call.proc[p].pc = "open_last"
    /\ kernel' = [kernel EXCEPT
                    !.files = create(@, LAST_IPFILE_PREFIX \o call.proc[p].range_id)]
    /\ call' = [call EXCEPT !.proc[p].pc = "write_last"]
    /\ UNCHANGED procvars

\* f.write_all(ip.to_string().as_bytes())?; Ok(true)
ReserveWriteLast(p) ==
    /\ call.op = "store" /\ call.proc[p].pc = "write_last"
    /\ kernel' = [kernel EXCEPT
                    !.files = write_all(@, LAST_IPFILE_PREFIX \o call.proc[p].range_id,
                                        to_string(call.proc[p].ip))]
    /\ call' = [StoreReturn(call, p, "true", "") EXCEPT
                    !.won[call.proc[p].ip] = @ + 1]
    /\ UNCHANGED procvars

\* invocation p calls store.release_by_id(id, ifname)
BeginRelease(p) ==
    /\ call.op = "store" /\ call.proc[p].pc = "idle" /\ call.n < MaxStoreOps
    /\ \E id \in StoreIds, ifname \in StoreIfnames :
        call' = [call EXCEPT !.n = @ + 1,
                             !.proc[p] = [IdleProc EXCEPT !.pc = "read_dir",
                                 !.op = "release_by_id", !.id = id,
                                 !.ifname = ifname]]
    /\ UNCHANGED <<kernel, procvars>>

\* std::fs::read_dir(&self.path)?: the entries that are there now
ReleaseReadDir(p) ==
    /\ call.op = "store" /\ call.proc[p].pc = "read_dir"
    /\ call' = [call EXCEPT !.proc[p].pc = "entry",
                            !.proc[p].entries = DOMAIN kernel.files]
    /\ UNCHANGED <<kernel, procvars>>

\* one turn of the loop up to the comparison: entry.metadata()? and
\* read_to_string(&path)? fail when the file is gone; Ok(found) after the
\* last entry
ReleaseEntry(p) ==
    /\ call.op = "store" /\ call.proc[p].pc = "entry"
    /\ IF call.proc[p].entries = {}
       THEN call' = StoreReturn(call, p,
                                IF call.proc[p].found THEN "true" ELSE "false", "")
       ELSE \E path \in call.proc[p].entries :
            IF ~exists(kernel.files, path)
            THEN call' = StoreReturn(call, p, "err",
                                     "No such file or directory (os error 2)")
            ELSE IF trim(kernel.files[path])
                        = call.proc[p].id \o LINE_BREAK \o call.proc[p].ifname
            THEN call' = [call EXCEPT !.proc[p].pc = "remove_file",
                                      !.proc[p].path = path,
                                      !.proc[p].entries = @ \ {path}]
            ELSE call' = [call EXCEPT !.proc[p].entries = @ \ {path}]
    /\ UNCHANGED <<kernel, procvars>>

\* std::fs::remove_file(&path)?; found = true
ReleaseRemoveFile(p) ==
    /\ call.op = "store" /\ call.proc[p].pc = "remove_file"
    /\ IF ~exists(kernel.files, call.proc[p].path)
       THEN /\ call' = StoreReturn(call, p, "err",
                                   "No such file or directory (os error 2)")
            /\ UNCHANGED kernel
       ELSE /\ kernel' = [kernel EXCEPT
                            !.files = remove_file(@, call.proc[p].path)]
            /\ call' = [call EXCEPT
                            !.proc[p].pc = "entry", !.proc[p].found = TRUE,
                            !.removed = [a \in StoreAddrs |->
                                IF to_string(a) = call.proc[p].path
                                THEN @[a] + 1 ELSE @[a]],
                            !.owner = [a \in StoreAddrs |->
                                IF to_string(a) = call.proc[p].path
                                THEN None ELSE @[a]]]
    /\ UNCHANGED procvars

NextStore ==
    \E p \in Invocations :
        \/ BeginReserve(p)
        \/ ReserveExists(p)
        \/ ReserveCreateNew(p)
        \/ ReserveWrite(p)
        \/ ReserveOpenLast(p)
        \/ ReserveWriteLast(p)
        \/ BeginRelease(p)
        \/ ReleaseReadDir(p)
        \/ ReleaseEntry(p)
        \/ ReleaseRemoveFile(p)

SpecStore == InitStore /\ [][NextStore]_vars

\* C36: in the store, whatever the interleaving of reserve and
\* release_by_id calls, an address has at most one owner: no more reserve
\* calls on it report success than its file was unlinked plus one, and the
\* owner written first stays the content of the file while it exists
C36_OneOwnerPerAddress ==
    call.op = "store" =>
        \A a \in StoreAddrs :
            /\ call.won[a] <= call.removed[a] + 1
            /\ (exists(kernel.files, to_string(a))
                    /\ kernel.files[to_string(a)] # << >>)
                => Some(kernel.files[to_string(a)]) = call.owner[a]

\* two invocations reserved the same address at once: one owns it, the
\* other got the error of create_new
C36_Witness ==
    /\ call.op = "store"
    /\ \E p, q \in Invocations :
        /\ call.proc[p].op = "reserve" /\ call.proc[q].op = "reserve"
        /\ call.proc[p].ip = call.proc[q].ip
        /\ call.proc[p].id # call.proc[q].id
        /\ call.proc[p].res = "true" /\ call.proc[q].res = "err"
        /\ kernel.files[to_string(call.proc[p].ip)]
                = call.proc[p].id \o LINE_BREAK \o call.proc[p].ifname

\* C37: when reserve(id, ifname, ip, r) returns Ok(true),
\* last_reserved_ip(r) is Some(ip)
C37_LastReservedIpIsTheOneReserved ==
    [][\A p \in Invocations :
        (call.op = "store" /\ call.proc[p].pc = "write_last"
            /\ call'.proc[p].pc = "idle")
        => last_reserved_ip(kernel'.files, call.proc[p].range_id)
                = Some(call.proc[p].ip)]_vars

(***************************************************************************)
(* ipam-host-local: cmd_add (main.rs) over the store.  The calls of one    *)
(* invocation on the store are taken whole here; call.reserved is the set  *)
(* of addresses this invocation has reserved.                              *)
(***************************************************************************)
\* Store::reserve, the whole call
reserve(files, id, ifname, ip, range_id) ==
    IF exists(files, to_string(ip)) THEN [ok |-> TRUE, res |-> FALSE, files |-> files]
    ELSE Let(create_new(files, to_string(ip)), LAMBDA f :
        IF ~f.ok THEN [ok |-> FALSE, res |-> FALSE, files |-> files]
        ELSE [ok |-> TRUE, res |-> TRUE,
              files |-> write_all(
                  create(write_all(f.files, to_string(ip),
                                   id \o LINE_BREAK \o ifname),
                         LAST_IPFILE_PREFIX \o range_id),
                  LAST_IPFILE_PREFIX \o range_id, to_string(ip))])

\* Store::release_by_id that finds the files and leaves them
release_by_id_NoRemove(files, id, ifname, fail) ==
    IF fail THEN [ok |-> FALSE, found |-> FALSE, files |-> files]
    ELSE [ok |-> TRUE,
          found |-> \E path \in DOMAIN files :
                        trim(files[path]) = id \o LINE_BREAK \o ifname,
          files |-> files]

\* Store::release_by_id, the whole call: every file whose trimmed content is
\* the owner is removed; `fail` is an I/O error of read_dir
release_by_id(files, id, ifname, fail) ==
    IF fail THEN [ok |-> FALSE, found |-> FALSE, files |-> files]
    ELSE [ok |-> TRUE,
          found |-> \E path \in DOMAIN files :
                        trim(files[path]) = id \o LINE_BREAK \o ifname,
          files |-> [path \in {q \in DOMAIN files :
                                trim(files[q]) # id \o LINE_BREAK \o ifname}
                        |-> files[path]]]

\* range sets of one configuration, at most
MaxRangeSets == 2

\* the range sets a configuration can name: non-empty sets of addresses, no
\* two of them overlapping (load_ipam_config)
RangeSetLists ==
    {rs \in UNION {[1 .. n -> SUBSET StoreAddrs \ {{}}] : n \in 1 .. MaxRangeSets} :
        \A i, j \in 1 .. Len(rs) : i # j => rs[i] \cap rs[j] = {}}

\* the data directory before the invocation: each address free or reserved
StoreFiles ==
    UNION {[{to_string(a) : a \in taken} ->
                {id \o LINE_BREAK \o ifname : id \in StoreIds, ifname \in StoreIfnames}]
           : taken \in SUBSET StoreAddrs}

InitHostLocal ==
    /\ ProcOff
    /\ \E files \in StoreFiles : kernel = [files |-> files]
    /\ \E id \in StoreIds, ifname \in StoreIfnames, ranges \in RangeSetLists :
        call = [op |-> "host_local", n |-> 0, pc |-> "get", id |-> id,
                ifname |-> ifname, ranges |-> ranges, idx |-> 0, ips |-> << >>,
                allocators |-> << >>, j |-> 1, reserved |-> {},
                release_failed |-> FALSE, out |-> None, err |-> ""]

\* IpAllocator::get(id, ifname, None), the outcomes it can have: an address
\* of the range set that store.reserve() reserved for the caller, or, when
\* none is free or the store fails, an error with nothing of this range set
\* left reserved (the allocator rolls its own partial allocations back)
get(files, rangeset, range_id, id, ifname, fail) ==
    {[ok |-> TRUE, ip |-> ip, err |-> "",
      files |-> reserve(files, id, ifname, ip, range_id).files] :
        ip \in {a \in rangeset : ~fail /\ ~exists(files, to_string(a))}}
    \cup (IF fail \/ \A a \in rangeset : exists(files, to_string(a))
          THEN {[ok |-> FALSE, ip |-> << >>, files |-> files,
                 err |-> "no IP addresses available in range set"]}
          ELSE {})

\* IpAllocator::release(id, ifname): store.release_by_id(id, ifname)
release(files, id, ifname, fail) == release_by_id(files, id, ifname, fail)

\* one turn of the loop over the range sets: IpAllocator::new and
\* allocator.get; Ok(ip): ips.push(ip), allocators.push(allocator); Err(e):
\* on to the release of the earlier allocators
HostLocalGet(fail) ==
    /\ call.op = "host_local" /\ call.pc = "get" /\ call.idx < Len(call.ranges)
    /\ \E r \in get(kernel.files, call.ranges[call.idx + 1], decimal(call.idx),
                     call.id, call.ifname, fail) :
        IF r.ok
        THEN /\ kernel' = [kernel EXCEPT !.files = r.files]
             /\ call' = [call EXCEPT
                            !.ips = Append(@, r.ip),
                            !.allocators = Append(@, call.idx),
                            !.reserved = @ \cup {r.ip},
                            !.idx = @ + 1,
                            !.pc = IF call.idx + 1 = Len(call.ranges)
                                   THEN "emit" ELSE "get"]
        ELSE /\ call' = [call EXCEPT !.pc = "release", !.err = r.err]
             /\ UNCHANGED kernel
    /\ UNCHANGED procvars

\* for alloc in &allocators { let _ = alloc.release(container_id, if_name); }
\* return Err(e): one turn of the loop, the error of release dropped
HostLocalRelease(fail) ==
    /\ call.op = "host_local" /\ call.pc = "release"
    /\ IF call.j <= Len(call.allocators)
       THEN \E r \in {release(kernel.files, call.id, call.ifname, fail)} :
            /\ kernel' = [kernel EXCEPT !.files = r.files]
            /\ call' = [call EXCEPT !.j = @ + 1,
                                    !.release_failed = @ \/ ~r.ok]
       ELSE /\ ~fail
            /\ call' = [call EXCEPT !.pc = "failed"]
            /\ UNCHANGED kernel
    /\ UNCHANGED procvars

\* exec_result.ips = Some(ips); serde_json::to_writer(stdout(), ..); Ok(())
HostLocalEmit ==
    /\ call.op = "host_local" /\ call.pc = "emit"
    /\ call' = [call EXCEPT !.pc = "done", !.out = Some(call.ips)]
    /\ UNCHANGED <<kernel, procvars>>

NextHostLocal ==
    \/ \E fail \in BOOLEAN : HostLocalGet(fail)
    \/ \E fail \in BOOLEAN : HostLocalRelease(fail)
    \/ HostLocalEmit

SpecHostLocal == InitHostLocal /\ [][NextHostLocal]_vars

\* the files of the store that name the owner (id, ifname)
OwnedBy(files, id, ifname) ==
    {path \in DOMAIN files : trim(files[path]) = id \o LINE_BREAK \o ifname}

\* C38: when the allocation from a range set fails and no release met an
\* I/O error, the invocation ends with the error and without a result, and
\* no address it reserved from the earlier range sets is still reserved for
\* its container and interface
C38_FailedAddReleasesEarlierRangeSets ==
    (call.op = "host_local" /\ call.pc = "failed" /\ ~call.release_failed) =>
        /\ call.err # "" /\ call.out = None
        /\ \A ip \in call.reserved :
            to_string(ip) \notin OwnedBy(kernel.files, call.id, call.ifname)

\* the second range set failed after the first gave an address
C38_Witness ==
    /\ call.op = "host_local" /\ call.pc = "failed" /\ ~call.release_failed
    /\ call.idx = 1 /\ Len(call.ips) = 1 /\ call.reserved # {}
    /\ \A ip \in call.reserved : ~exists(kernel.files, to_string(ip))

(***************************************************************************)
(* flannel-plugin: cmd_add (main.rs).  The delegate dictionary is a        *)
(* function from its keys to JSON values, a JSON value a record of its     *)
(* type t and its content: s of a string, b of a boolean, n of a number,   *)
(* s the type field of the object that an ipam value is.                   *)
(***************************************************************************)
JsonString(s) == [t |-> "string", s |-> s, b |-> FALSE, n |-> 0]

JsonBool(b) == [t |-> "bool", s |-> "", b |-> b, n |-> 0]

JsonNumber(n) == [t |-> "number", s |-> "", b |-> FALSE, n |-> n]

JsonObject(type) == [t |-> "object", s |-> type, b |-> FALSE, n |-> 0]

\* Value::is_string
is_string(value) == value.t = "string"

\* HashMap::get
map_get(map, key) == IF key \in DOMAIN map THEN Some(map[key]) ELSE None

\* HashMap::insert: the value replaces the one of the key
insert(map, key, value) ==
    [k \in DOMAIN map \cup {key} |-> IF k = key THEN value ELSE map[k]]

\* HashMap::entry(key).or_insert(value): the value of the key stays if set
or_insert(map, key, value) ==
    IF key \in DOMAIN map THEN map ELSE insert(map, key, value)

\* the delegate dictionaries of the configurations: any of the keys, the
\* type a string or a number
FlannelDelegates ==
    UNION {[keys -> {JsonString("bridge"), JsonString("ipvlan"), JsonNumber(7),
                     JsonBool(TRUE), JsonObject("host-local")}]
           : keys \in SUBSET {"type", "name", "ipam", "ipMasq"}}

FlannelInputs ==
    {d \in FlannelDelegates :
        /\ "name" \in DOMAIN d => d["name"] = JsonString("bridge")
        /\ "ipam" \in DOMAIN d => d["ipam"] = JsonObject("host-local")
        /\ "ipMasq" \in DOMAIN d => d["ipMasq"] = JsonBool(TRUE)
        /\ "type" \in DOMAIN d => d["type"].t \in {"string", "number"}}

InitFlannel ==
    /\ ProcOff
    /\ kernel = EmptyKernel
    /\ \E delegate \in {None} \cup {Some(d) : d \in FlannelInputs},
          ipmasq \in {None, Some(TRUE), Some(FALSE)},
          cni_version \in {"", "0.4.0"} :
        call = [op |-> "flannel", n |-> 0, pc |-> "check",
                net_conf |-> [name |-> "flannel0", cni_version |-> cni_version,
                              delegate |-> delegate],
                subnet_env |-> [ipmasq |-> ipmasq, mtu |-> Some(1450)],
                input |-> delegate, rejected |-> FALSE, err |-> ""]

\* the tests of a given dictionary, in the order of the code: the error
\* message of the first that fails, "" when none does
validate_delegate(delegate) ==
    IF ~(IF map_get(delegate, "type") = None THEN FALSE
         ELSE is_string(map_get(delegate, "type")[1]))
    THEN "'delegate' dictionary, if present, must have (string) 'type' field"
    ELSE IF map_get(delegate, "name") = None
    THEN "'delegate' dictionary must not have 'name' field, it'll be set by flannel"
    ELSE IF map_get(delegate, "ipam") = None
    THEN "'delegate' dictionary must not have 'ipam' field, it'll be set by flannel"
    ELSE ""

\* match &net_conf.delegate: None becomes the empty dictionary, a given
\* dictionary is validated
FlannelCheckDelegate ==
    /\ call.op = "flannel" /\ call.pc = "check"
    /\ IF call.net_conf.delegate = None
       THEN call' = [call EXCEPT !.net_conf.delegate = Some(<< >>),
                                 !.pc = "fill"]
       ELSE \E err \in {validate_delegate(call.net_conf.delegate[1])} :
            IF err # ""
            THEN call' = [call EXCEPT !.pc = "failed", !.err = err,
                                      !.rejected = TRUE]
            ELSE call' = [call EXCEPT !.pc = "fill"]
    /\ UNCHANGED <<kernel, procvars>>

\* the fields flannel sets in the dictionary: name, type, ipMasq, mtu,
\* isGateway, cniVersion, ipam; subnet_env.ipmasq.unwrap() panics on None
fill_delegate(d, net_conf, subnet_env) ==
    Let(or_insert(insert(d, "name", JsonString(net_conf.name)),
                  "type", JsonString("bridge")), LAMBDA d1 :
    Let(IF "ipMasq" \in DOMAIN d1 THEN d1
        ELSE insert(d1, "ipMasq", JsonBool(~subnet_env.ipmasq[1])), LAMBDA d2 :
    Let(or_insert(d2, "mtu", JsonNumber(subnet_env.mtu[1])), LAMBDA d3 :
    Let(IF d3["type"] = JsonString("bridge")
        THEN or_insert(d3, "isGateway", JsonBool(TRUE)) ELSE d3, LAMBDA d4 :
    Let(IF net_conf.cni_version # ""
        THEN insert(d4, "cniVersion", JsonString(net_conf.cni_version))
        ELSE d4, LAMBDA d5 :
    insert(d5, "ipam", JsonObject("host-local")))))))

FlannelFillDelegate ==
    /\ call.op = "flannel" /\ call.pc = "fill"
    /\ IF "ipMasq" \notin DOMAIN call.net_conf.delegate[1]
            /\ call.subnet_env.ipmasq = None
       THEN call' = [call EXCEPT !.pc = "panicked",
                        !.err = "called Option::unwrap() on a None value"]
       ELSE call' = [call EXCEPT !.pc = "delegate_add",
                        !.net_conf.delegate =
                            Some(fill_delegate(@[1], call.net_conf,
                                               call.subnet_env))]
    /\ UNCHANGED <<kernel, procvars>>

\* delegate_add: the plugin named by the type field is invoked with the
\* dictionary as its configuration
FlannelDelegateAdd(fail) ==
    /\ call.op = "flannel" /\ call.pc = "delegate_add"
    /\ IF fail \/ ~is_string(call.net_conf.delegate[1]["type"])
       THEN call' = [call EXCEPT !.pc = "failed", !.err = "delegate failed"]
       ELSE call' = [call EXCEPT !.pc = "done"]
    /\ UNCHANGED <<kernel, procvars>>

NextFlannel ==
    \/ FlannelCheckDelegate
    \/ FlannelFillDelegate
    \/ \E fail \in BOOLEAN : FlannelDelegateAdd(fail)

SpecFlannel == InitFlannel /\ [][NextFlannel]_vars

\* C39: a delegate dictionary of the configuration is rejected exactly when
\* it has a name field, has an ipam field, or has no string type field
C39_DelegateDictionaryValidation ==
    (call.op = "flannel" /\ call.pc # "check" /\ call.input # None) =>
        (call.rejected <=>
            \/ "name" \in DOMAIN call.input[1]
            \/ "ipam" \in DOMAIN call.input[1]
            \/ "type" \notin DOMAIN call.input[1]
            \/ ~is_string(call.input[1]["type"]))

(***************************************************************************)
(* ipam-host-local: Range::canonicalize (range.rs).  An address is a       *)
(* number of RangeV4Bits bits for IPv4 and of RangeV6Bits bits for IPv6; a *)
(* range is the record of its subnet (fam, ip, prefix) and its optional    *)
(* range_start, range_end and gateway, which are of the subnet's family.   *)
(***************************************************************************)
\* the bits of an IPv4 address (32 in the code)
RangeV4Bits == 3

\* the bits of an IPv6 address (128 in the code)
RangeV6Bits == 4

range_bits(fam) == IF fam = FAMILY_V4 THEN RangeV4Bits ELSE RangeV6Bits

\* the prefix from which canonicalize calls a network too small: 31, one
\* less than the bits of an IPv4 address, whatever the family
TOO_SMALL_PREFIX == RangeV4Bits - 1

\* IpNetwork::network(): the address with its host bits cleared
range_network(r) ==
    (r.ip \div 2 ^ (range_bits(r.fam) - r.prefix)) * 2 ^ (range_bits(r.fam) - r.prefix)

\* IpNetwork::contains(addr)
subnet_contains(r, addr) ==
    addr \div 2 ^ (range_bits(r.fam) - r.prefix)
        = r.ip \div 2 ^ (range_bits(r.fam) - r.prefix)

\* allocator::next_ip(&ip): the address after ip, None after the last one
allocator_next_ip(fam, ip) ==
    IF ip + 1 < 2 ^ range_bits(fam) THEN Some(ip + 1) ELSE None

\* allocator::last_ip(&subnet): the last address of the subnet, for IPv4 the
\* one before it (the last is the broadcast address)
allocator_last_ip(r) ==
    range_network(r) + 2 ^ (range_bits(r.fam) - r.prefix) - 1
        - (IF r.fam = FAMILY_V4 THEN 1 ELSE 0)

\* Range::contains(addr)
range_contains(r, addr) ==
    /\ subnet_contains(r, addr)
    /\ r.range_start # None => ~(addr < r.range_start[1])
    /\ r.range_end # None => ~(addr > r.range_end[1])

\* Range::canonicalize: the error, or the range with its fields filled
canonicalize(r) ==
    IF r.prefix >= TOO_SMALL_PREFIX
    THEN [ok |-> FALSE, err |-> "Network too small to allocate from", r |-> r]
    ELSE IF r.ip # range_network(r)
    THEN [ok |-> FALSE, err |-> "Network has host bits set", r |-> r]
    ELSE Let(IF r.gateway = None
             THEN [r EXCEPT !.gateway = allocator_next_ip(r.fam, r.ip)]
             ELSE r, LAMBDA r1 :
        IF r1.range_start # None /\ ~range_contains(r1, r1.range_start[1])
        THEN [ok |-> FALSE, err |-> "RangeStart not in network", r |-> r1]
        ELSE Let(IF r1.range_start = None
                 THEN [r1 EXCEPT !.range_start = allocator_next_ip(r.fam, r.ip)]
                 ELSE r1, LAMBDA r2 :
            IF r2.range_end # None /\ ~range_contains(r2, r2.range_end[1])
            THEN [ok |-> FALSE, err |-> "RangeEnd not in network", r |-> r2]
            ELSE [ok |-> TRUE, err |-> "",
                  r |-> IF r2.range_end = None
                        THEN [r2 EXCEPT !.range_end = Some(allocator_last_ip(r))]
                        ELSE r2]))

\* the ranges of the configurations
Ranges ==
    UNION {[fam : {fam}, ip : 0 .. 2 ^ range_bits(fam) - 1,
            prefix : 0 .. range_bits(fam),
            range_start : {None} \cup {Some(a) : a \in 0 .. 2 ^ range_bits(fam) - 1},
            range_end : {None} \cup {Some(a) : a \in 0 .. 2 ^ range_bits(fam) - 1},
            gateway : {None, Some(2 ^ range_bits(fam) - 2)}]
           : fam \in Families}

InitRange ==
    /\ ProcOff
    /\ kernel = EmptyKernel
    /\ call = NoCall

\* r.canonicalize() on a range of the configuration
CallCanonicalize ==
    /\ call.op = "none"
    /\ \E r \in Ranges :
        call' = [op |-> "canonicalize", n |-> 1, r |-> r, out |-> canonicalize(r)]
    /\ UNCHANGED <<kernel, procvars>>

NextRange == CallCanonicalize

SpecRange == InitRange /\ [][NextRange]_vars

\* range_start and range_end as given, or else as they are to be filled
StartOf(r) == IF r.range_start # None THEN r.range_start[1] ELSE r.ip + 1

EndOf(r) == IF r.range_end # None THEN r.range_end[1] ELSE allocator_last_ip(r)

\* the cases in which canonicalize has to fail: fewer than two host bits,
\* host bits set in the subnet address, a given range_start or range_end
\* outside the subnet, range_start after range_end
MustFail(r) ==
    \/ range_bits(r.fam) - r.prefix < 2
    \/ r.ip # range_network(r)
    \/ r.range_start # None /\ ~subnet_contains(r, r.range_start[1])
    \/ r.range_end # None /\ ~subnet_contains(r, r.range_end[1])
    \/ StartOf(r) > EndOf(r)

\* C40: canonicalize fails exactly in the cases of MustFail; when it
\* succeeds the given fields are kept, a missing gateway and a missing
\* range_start are the address after the network address, a missing
\* range_end is the last usable address, and range_start <= range_end lie
\* in the subnet
C40_Canonicalize ==
    call.op = "canonicalize" =>
        /\ call.out.ok <=> ~MustFail(call.r)
        /\ call.out.ok =>
            /\ call.out.r.gateway =
                    IF call.r.gateway # None THEN call.r.gateway
                    ELSE Some(call.r.ip + 1)
            /\ call.out.r.range_start = Some(StartOf(call.r))
            /\ call.out.r.range_end = Some(EndOf(call.r))
            /\ call.out.r.range_start[1] <= call.out.r.range_end[1]
            /\ subnet_contains(call.r, call.out.r.range_start[1])
            /\ subnet_contains(call.r, call.out.r.range_end[1])

====
